---- MODULE Spec2Model ----
(***************************************************************************)
(* Model of the result-PDF converter of src/csvcont.py (class              *)
(* ResultParser): the token normalizer, the grade policy, the section      *)
(* locator, the subject walk of parse_student_block and the page/line loop *)
(* of process; the generator converter of src/utils/pdf_to_structured_csv  *)
(* (parse_student_data, extract_pdf_to_structured_csv); the session        *)
(* entries of the web routes of src/app.py; and the filters of             *)
(* src/utils/data_processor.py (StudentMarksProcessor).                    *)
(*                                                                         *)
(* A Python str is modelled as a sequence of one-character strings, so     *)
(* that split, strip, join, isdigit and int are computed character by      *)
(* character.  The character "sup2" stands for a superscript two, a        *)
(* character for which str.isdigit() is true and int() raises ValueError.  *)
(***************************************************************************)
EXTENDS Integers, Sequences, FiniteSets, TLC

VARIABLES
    cfg,            \* self.total_subjects, self.practical_subjects
    doc,            \* the document: a sequence of pages, each a sequence of lines
    pc,             \* position of process(): "page", "line", "final", "done"
    page_idx,       \* pages whose text has been extracted so far
    lines,          \* lines of the current page still to be handled
    current_block,  \* process(): current_block
    rows,           \* process(): rows
    parsed,         \* history: the blocks handed to parse_student_block, in order
    progress,       \* the (page, total_pages) calls of progress_callback, in order
    output_csv,     \* the table written by df.to_csv, once written
    metadata_df,    \* self.metadata_df: None or the identity table
    events,         \* history: page-text extractions and page-progress events, in order
    student_details,\* extract_pdf_to_structured_csv: student_details
    all_lines,      \* extract_pdf_to_structured_csv: all_lines
    index,          \* extract_pdf_to_structured_csv: index
    all_students,   \* extract_pdf_to_structured_csv: all_students
    calls,          \* history: the calls of parse_student_data, in order
    session,        \* the Flask session of one client
    fn,             \* function under study in the single-call specifications
    arg,            \* its argument
    ret             \* its result, once called

vars == <<cfg, doc, pc, page_idx, lines, current_block, rows, parsed, progress, output_csv,
          metadata_df, events, student_details, all_lines, index, all_students, calls,
          session, fn, arg, ret>>

\* the state of the generator converter
ExtractVars == <<student_details, all_lines, index, all_students, calls>>

(***************************************************************************)
(* Python str primitives                                                   *)
(***************************************************************************)
Digits == {"0", "1", "2", "3", "4", "5", "6", "7", "8", "9"}

SuperscriptDigits == {"sup2"}

Whitespace == {" ", "\n"}

DigitVal(c) ==
    CASE c = "0" -> 0 [] c = "1" -> 1 [] c = "2" -> 2 [] c = "3" -> 3
      [] c = "4" -> 4 [] c = "5" -> 5 [] c = "6" -> 6 [] c = "7" -> 7
      [] c = "8" -> 8 [] c = "9" -> 9

\* str.upper() on one character
UpperChar(c) ==
    CASE c = "z" -> "Z" [] c = "e" -> "E" [] c = "r" -> "R" [] c = "o" -> "O"
      [] OTHER -> c

Upper(s) == [i \in 1..Len(s) |-> UpperChar(s[i])]

\* str.strip()
Strip(s) ==
    LET keep == {i \in 1..Len(s) : s[i] \notin Whitespace}
    IN  IF keep = {} THEN <<>>
        ELSE LET lo == CHOOSE i \in keep : \A j \in keep : i <= j
                 hi == CHOOSE i \in keep : \A j \in keep : i >= j
             IN  SubSeq(s, lo, hi)

\* the positions where a run of characters other than whitespace starts
WordStarts(s) == {i \in 1..Len(s) : s[i] \notin Whitespace /\ (i = 1 \/ s[i - 1] \in Whitespace)}

\* the last position of the run that starts at position i
WordEnd(s, i) ==
    CHOOSE e \in i..Len(s) :
        /\ \A j \in i..e : s[j] \notin Whitespace
        /\ (e = Len(s) \/ s[e + 1] \in Whitespace)

\* the k-th element of a set of positions, in increasing order
NthOf(S, k) == CHOOSE i \in S : Cardinality({j \in S : j < i}) = k - 1

\* str.split(): on runs of whitespace, no empty strings
Split(s) ==
    [k \in 1..Cardinality(WordStarts(s)) |->
        SubSeq(s, NthOf(WordStarts(s), k), WordEnd(s, NthOf(WordStarts(s), k)))]

RECURSIVE SplitOnFrom(_, _, _, _, _)
SplitOnFrom(s, sep, i, cur, acc) ==
    IF i > Len(s) THEN Append(acc, cur)
    ELSE IF s[i] = sep
         THEN SplitOnFrom(s, sep, i + 1, <<>>, Append(acc, cur))
         ELSE SplitOnFrom(s, sep, i + 1, Append(cur, s[i]), acc)

\* str.split(sep) for a one-character separator: empty strings are kept
SplitOn(s, sep) == SplitOnFrom(s, sep, 1, <<>>, <<>>)

RECURSIVE Join(_, _)
\* sep.join(parts)
Join(parts, sep) ==
    IF parts = <<>> THEN <<>>
    ELSE IF Len(parts) = 1 THEN parts[1]
    ELSE parts[1] \o sep \o Join(Tail(parts), sep)

\* str.isdigit()
IsDigit(s) == s # <<>> /\ \A i \in 1..Len(s) : s[i] \in Digits \cup SuperscriptDigits

RECURSIVE DecimalValue(_)
DecimalValue(s) ==
    IF s = <<>> THEN 0
    ELSE 10 * DecimalValue(SubSeq(s, 1, Len(s) - 1)) + DigitVal(s[Len(s)])

IntOfStripped(t) ==
    IF t # <<>> /\ \A i \in 1..Len(t) : t[i] \in Digits
    THEN [exc |-> "none", val |-> DecimalValue(t)]
    ELSE [exc |-> "ValueError", val |-> 0]

\* int(s), for the strings the code passes to it (those that pass isdigit):
\* surrounding whitespace is ignored; the value, or ValueError for a digit-like
\* character int() does not accept
IntOf(s) == IntOfStripped(Strip(s))

(***************************************************************************)
(* Token normalizer and grade policy                                       *)
(***************************************************************************)
ZERO == <<"Z", "E", "R", "O">>

\* Python's None, where a str is expected: a sequence that is no str
None == <<"None">>

NormalizeStrippedCaseSensitive(t) == IF t = ZERO THEN <<"0">> ELSE t

\* v = v.strip(); if v.upper() == "ZERO": return "0"; return v
NormalizeStripped(t) == IF Upper(t) = ZERO THEN <<"0">> ELSE t

\* ResultParser.normalize: "if not v" holds for None and for ""
Normalize(v) == IF v = None \/ v = <<>> THEN <<"0">> ELSE NormalizeStripped(Strip(v))

\* the running sum of the generator: an exception of int() ends it
AddSegment(n, rest) ==
    IF n.exc # "none" THEN n
    ELSE IF rest.exc # "none" THEN rest
    ELSE [exc |-> "none", val |-> n.val + rest.val]

RECURSIVE SumSegments(_)
\* sum(int(x) for x in segs if x.strip().isdigit()): exc is set when an int() raises
SumSegments(segs) ==
    IF segs = <<>> THEN [exc |-> "none", val |-> 0]
    ELSE IF ~IsDigit(Strip(Head(segs))) THEN SumSegments(Tail(segs))
    ELSE AddSegment(IntOf(Head(segs)), SumSegments(Tail(segs)))

\* try: return sum(...)  except ValueError: return 0
CatchValueError(r) == IF r.exc = "ValueError" THEN [exc |-> "none", val |-> 0] ELSE r

\* the body of to_numeric after v = normalize(v)
ToNumericNormalized(v) ==
    IF \E i \in 1..Len(v) : v[i] = "+"
    THEN CatchValueError(SumSegments(SplitOn(v, "+")))
    ELSE IF IsDigit(v) THEN IntOf(v) ELSE [exc |-> "none", val |-> 0]

\* ResultParser.to_numeric: [exc, val]; exc is "ValueError" when it raises
ToNumeric(v0) == ToNumericNormalized(Normalize(v0))

GetGradeStrictThresholds(marks, max_marks) ==
    IF max_marks = 50
    THEN IF marks > 35 THEN "Distinction"
         ELSE IF marks > 30 THEN "First"
         ELSE IF marks > 25 THEN "Second"
         ELSE IF marks > 18 THEN "Pass"
         ELSE "Fail"
    ELSE IF marks > 70 THEN "Distinction"
         ELSE IF marks > 60 THEN "First"
         ELSE IF marks > 50 THEN "Second"
         ELSE IF marks > 35 THEN "Pass"
         ELSE "Fail"

\* ResultParser.get_grade
GetGrade(marks, max_marks) ==
    IF max_marks = 50
    THEN IF marks >= 35 THEN "Distinction"
         ELSE IF marks >= 30 THEN "First"
         ELSE IF marks >= 25 THEN "Second"
         ELSE IF marks >= 18 THEN "Pass"
         ELSE "Fail"
    ELSE IF marks >= 70 THEN "Distinction"
         ELSE IF marks >= 60 THEN "First"
         ELSE IF marks >= 50 THEN "Second"
         ELSE IF marks >= 35 THEN "Pass"
         ELSE "Fail"

\* re.sub(r'\s*\+\s*', '+', s): every whitespace run next to a '+' is removed
CollapseAroundPlus(s) ==
    LET PrevNonWs(i) == {j \in 1..(i - 1) : s[j] \notin Whitespace}
        NextNonWs(i) == {j \in (i + 1)..Len(s) : s[j] \notin Whitespace}
        Max(S) == CHOOSE x \in S : \A y \in S : x >= y
        Min(S) == CHOOSE x \in S : \A y \in S : x <= y
        Dropped(i) ==
            /\ s[i] \in Whitespace
            /\ \/ PrevNonWs(i) # {} /\ s[Max(PrevNonWs(i))] = "+"
               \/ NextNonWs(i) # {} /\ s[Min(NextNonWs(i))] = "+"
        F[i \in 0..Len(s)] ==
            IF i = 0 THEN <<>>
            ELSE IF Dropped(i) THEN F[i - 1] ELSE Append(F[i - 1], s[i])
    IN  F[Len(s)]

\* ResultParser.clean_section_tokens
CleanSectionTokens(tokens) ==
    IF tokens = <<>> THEN <<>>
    ELSE Split(CollapseAroundPlus(Join(tokens, <<" ">>)))

(***************************************************************************)
(* parse_student_block                                                     *)
(***************************************************************************)
EXT == <<"E", "X", "T">>

INT == <<"I", "N", "T">>

TOTAL == <<"T", "O", "T", "A", "L">>

Keywords == {"EXT", "INT", "TOTAL"}

KeywordToken(kw) == CASE kw = "EXT" -> EXT [] kw = "INT" -> INT [] kw = "TOTAL" -> TOTAL

\* tokens.index(kw), 0-based, or -1 where the code catches ValueError
IndexOf(tokens, kw) ==
    LET hits == {i \in 1..Len(tokens) : tokens[i] = KeywordToken(kw)}
    IN  IF hits = {} THEN -1
        ELSE (CHOOSE i \in hits : \A j \in hits : i <= j) - 1

RECURSIVE SortByIndex(_)
\* sorted(...) of a set of (idx, kw) pairs
SortByIndex(pairs) ==
    IF pairs = {} THEN <<>>
    ELSE LET first == CHOOSE p \in pairs : \A q \in pairs : p.idx <= q.idx
         IN  <<first>> \o SortByIndex(pairs \ {first})

SortedIndices(tokens) ==
    SortByIndex({[idx |-> IndexOf(tokens, kw), kw |-> kw] :
                    kw \in {k \in Keywords : IndexOf(tokens, k) # -1}})

EndIdxAlwaysLast(sorted_indices, i, tokens) == Len(tokens)

\* end_idx = sorted_indices[i+1][0] if i+1 < len(sorted_indices) else len(tokens)
EndIdx(sorted_indices, i, tokens) ==
    IF i + 1 <= Len(sorted_indices) THEN sorted_indices[i + 1].idx ELSE Len(tokens)

\* raw_section = [self.normalize(t) for t in tokens[start_idx+1:end_idx]]
RawSection(tokens, start_idx, end_idx) ==
    [j \in 1..(end_idx - start_idx - 1) |-> Normalize(tokens[start_idx + 1 + j])]

SectionAtCleanFirst(tokens, sorted_indices, i) ==
    LET cleaned == CleanSectionTokens(SubSeq(tokens, sorted_indices[i].idx + 2,
                                             EndIdx(sorted_indices, i, tokens)))
    IN  [j \in 1..Len(cleaned) |-> Normalize(cleaned[j])]

\* the section the loop over sorted_indices assigns at position i
SectionAt(tokens, sorted_indices, i) ==
    CleanSectionTokens(RawSection(tokens, sorted_indices[i].idx,
                                  EndIdx(sorted_indices, i, tokens)))

\* the section assigned to kw; it stays empty when kw is not in sorted_indices
SectionIn(tokens, sorted_indices, kw) ==
    IF \E i \in 1..Len(sorted_indices) : sorted_indices[i].kw = kw
    THEN SectionAt(tokens, sorted_indices,
                   CHOOSE i \in 1..Len(sorted_indices) : sorted_indices[i].kw = kw)
    ELSE <<>>

SectionsIn(tokens, sorted_indices) ==
    [ext_tokens |-> SectionIn(tokens, sorted_indices, "EXT"),
     int_tokens |-> SectionIn(tokens, sorted_indices, "INT"),
     total_tokens |-> SectionIn(tokens, sorted_indices, "TOTAL")]

\* ext_tokens, int_tokens and total_tokens of a token list
LocateSections(tokens) == SectionsIn(tokens, SortedIndices(tokens))

\* arr[ptr] if ptr < len(arr) else "0"   (ptr is 0-based)
TokenAt(arr, ptr) == IF ptr < Len(arr) THEN arr[ptr + 1] ELSE <<"0">>

\* self.to_numeric(total_tokens[tot_ptr]) if tot_ptr < len(total_tokens) else 0
TotalAt(arr, ptr) ==
    IF ptr < Len(arr) THEN ToNumeric(arr[ptr + 1]) ELSE [exc |-> "none", val |-> 0]

MaxMarksAlways100(subject_count) == 100

\* max_marks = 50 if subject_count == 6 else 100
MaxMarks(subject_count) == IF subject_count = 6 THEN 50 ELSE 100

PracticalStrideNoSkip == 3 - 1

\* tokens of INT (and of EXT) a practical subject moves its pointer over:
\* two reads and the skipped per-subject total
PracticalStride == 3

AnyFailedOverwritten(any_failed, grade) == grade = "Fail"

\* if grade == "Fail": any_failed = True
AnyFailed(any_failed, grade) == any_failed \/ grade = "Fail"

AccumulateOverwritten(grand, a, b) == a + b

\* grand_int += (th_int_val + pr_int_val), and the same for grand_ext
Accumulate(grand, a, b) == grand + (a + b)

\* the first exception among the conversions of one subject, in evaluation order
FirstExc(results) ==
    LET bad == {i \in 1..Len(results) : results[i].exc # "none"}
    IN  IF bad = {} THEN "none"
        ELSE results[CHOOSE i \in bad : \A j \in bad : i <= j].exc

\* the end of a practical iteration: the conversions, the sums and row.extend
PracticalExtend(st, th_int, pr_int, th_ext, pr_ext, sub_total, grade, th_int_val, pr_int_val, th_ext_val, pr_ext_val) ==
    IF FirstExc(<<sub_total, th_int_val, pr_int_val, th_ext_val, pr_ext_val>>) # "none"
    THEN [st EXCEPT
            !.exc = FirstExc(<<sub_total, th_int_val, pr_int_val, th_ext_val, pr_ext_val>>)]
    ELSE [st EXCEPT
            !.int_ptr = st.int_ptr + PracticalStride,
            !.ext_ptr = st.ext_ptr + PracticalStride,
            !.tot_ptr = st.tot_ptr + 1,
            !.subject_count = st.subject_count + 1,
            !.any_failed = AnyFailed(st.any_failed, grade),
            !.grand_int = Accumulate(st.grand_int, th_int_val.val, pr_int_val.val),
            !.grand_ext = Accumulate(st.grand_ext, th_ext_val.val, pr_ext_val.val),
            !.row = st.row \o <<th_int, th_ext, pr_int, pr_ext,
                                th_int_val.val + pr_int_val.val + th_ext_val.val
                                    + pr_ext_val.val,
                                sub_total.val, grade>>]

\* the tokens read by a practical iteration, then graded and converted
PracticalRead(st, th_int, pr_int, th_ext, pr_ext, sub_total) ==
    PracticalExtend(st, th_int, pr_int, th_ext, pr_ext, sub_total,
                    GetGrade(sub_total.val, MaxMarks(st.subject_count + 1)),
                    ToNumeric(th_int), ToNumeric(pr_int), ToNumeric(th_ext),
                    ToNumeric(pr_ext))

\* one iteration of the loop over the practical subjects: theory and practical
\* token of INT and of EXT, the token after them skipped, one token of TOTAL
PracticalStep(st, sec) ==
    PracticalRead(st,
                  TokenAt(sec.int_tokens, st.int_ptr),
                  TokenAt(sec.int_tokens, st.int_ptr + 1),
                  TokenAt(sec.ext_tokens, st.ext_ptr),
                  TokenAt(sec.ext_tokens, st.ext_ptr + 1),
                  TotalAt(sec.total_tokens, st.tot_ptr))

\* the end of a theory-only iteration
TheoryExtend(st, th_int, th_ext, sub_total, grade, th_int_val, th_ext_val) ==
    IF FirstExc(<<sub_total, th_int_val, th_ext_val>>) # "none"
    THEN [st EXCEPT !.exc = FirstExc(<<sub_total, th_int_val, th_ext_val>>)]
    ELSE [st EXCEPT
            !.int_ptr = st.int_ptr + 1,
            !.ext_ptr = st.ext_ptr + 1,
            !.tot_ptr = st.tot_ptr + 1,
            !.subject_count = st.subject_count + 1,
            !.any_failed = AnyFailed(st.any_failed, grade),
            !.grand_int = Accumulate(st.grand_int, th_int_val.val, 0),
            !.grand_ext = Accumulate(st.grand_ext, th_ext_val.val, 0),
            !.row = st.row \o <<th_int, th_ext, th_int_val.val + th_ext_val.val, grade>>]

TheoryRead(st, th_int, th_ext, sub_total) ==
    TheoryExtend(st, th_int, th_ext, sub_total,
                 GetGrade(sub_total.val, MaxMarks(st.subject_count + 1)),
                 ToNumeric(th_int), ToNumeric(th_ext))

\* one iteration of the loop over the theory-only subjects: one token each of
\* INT, EXT and TOTAL
TheoryStep(st, sec) ==
    TheoryRead(st,
               TokenAt(sec.int_tokens, st.int_ptr),
               TokenAt(sec.ext_tokens, st.ext_ptr),
               TotalAt(sec.total_tokens, st.tot_ptr))

RECURSIVE PracticalLoop(_, _, _)
\* for _ in range(n): the practical pass; an exception ends the call
PracticalLoop(n, st, sec) ==
    IF n <= 0 \/ st.exc # "none" THEN st
    ELSE PracticalLoop(n - 1, PracticalStep(st, sec), sec)

RECURSIVE TheoryLoop(_, _, _)
\* for _ in range(n): the theory-only pass
TheoryLoop(n, st, sec) ==
    IF n <= 0 \/ st.exc # "none" THEN st
    ELSE TheoryLoop(n - 1, TheoryStep(st, sec), sec)

RECURSIVE DigitRun(_, _)
\* length of the run of decimal digits that starts at position i
DigitRun(s, i) == IF i <= Len(s) /\ s[i] \in Digits THEN 1 + DigitRun(s, i + 1) ELSE 0

RECURSIVE SpaceRun(_, _)
\* length of the run of whitespace that starts at position i
SpaceRun(s, i) == IF i <= Len(s) /\ s[i] \in Whitespace THEN 1 + SpaceRun(s, i + 1) ELSE 0

NoMatch == [found |-> FALSE]

\* (\d+\.\d{2}) from p6 with its digit run ending before p7: the match object
SgpaEnd(s, i, p1, p3, p4, p6, p7) ==
    IF p7 = p6 \/ p7 + 2 > Len(s) THEN NoMatch
    ELSE IF s[p7] # "." \/ s[p7 + 1] \notin Digits \/ s[p7 + 2] \notin Digits THEN NoMatch
    ELSE [found |-> TRUE, sem |-> SubSeq(s, i, p1 - 1), set_no |-> SubSeq(s, p3, p4 - 1),
          sgpa |-> SubSeq(s, p6, p7 + 2), next |-> p7 + 3]

\* \s*-\s* after the set number, q being the position after the whitespace
SecondDash(s, i, p1, p3, p4, q) ==
    IF q > Len(s) THEN NoMatch
    ELSE IF s[q] # "-" THEN NoMatch
    ELSE SgpaEnd(s, i, p1, p3, p4, q + 1 + SpaceRun(s, q + 1),
                 q + 1 + SpaceRun(s, q + 1) + DigitRun(s, q + 1 + SpaceRun(s, q + 1)))

\* (\d+) for the set number, from p3 to before p4
SetNumber(s, i, p1, p3, p4) ==
    IF p4 = p3 THEN NoMatch ELSE SecondDash(s, i, p1, p3, p4, p4 + SpaceRun(s, p4))

\* \s*-\s* after the semester number, q being the position after the whitespace
FirstDash(s, i, p1, q) ==
    IF q > Len(s) THEN NoMatch
    ELSE IF s[q] # "-" THEN NoMatch
    ELSE SetNumber(s, i, p1, q + 1 + SpaceRun(s, q + 1),
                   q + 1 + SpaceRun(s, q + 1) + DigitRun(s, q + 1 + SpaceRun(s, q + 1)))

\* (\d+) for the semester number, from i to before p1
SemNumber(s, i, p1) ==
    IF p1 = i THEN NoMatch ELSE FirstDash(s, i, p1, p1 + SpaceRun(s, p1))

\* the match of (\d+)\s*-\s*(\d+)\s*-\s*(\d+\.\d{2}) that starts at position i.
\* Each run is followed by a character its class excludes, so the greedy run is
\* the only one that can match.
MatchAt(s, i) == SemNumber(s, i, i + DigitRun(s, i))

\* the leftmost position from i on where a match starts, or 0
FirstMatchFrom(s, i) ==
    IF \E j \in i..Len(s) : s[j] \in Digits /\ MatchAt(s, j).found
    THEN CHOOSE j \in i..Len(s) :
             /\ s[j] \in Digits /\ MatchAt(s, j).found
             /\ \A k \in i..(j - 1) : ~(s[k] \in Digits /\ MatchAt(s, k).found)
    ELSE 0

RECURSIVE FindAllFrom(_, _, _)
FindAllNext(s, acc, m) == FindAllFrom(s, m.next, Append(acc, m))

\* re.findall: the non-overlapping matches, leftmost first
FindAllFrom(s, i, acc) ==
    IF FirstMatchFrom(s, i) = 0 THEN acc
    ELSE FindAllNext(s, acc, MatchAt(s, FirstMatchFrom(s, i)))

HistoricalMatches(text) == FindAllFrom(text, 1, <<>>)

SemSlots == 8

StoreTripleFirstWins(sem_data, m, sem_idx) ==
    IF 0 <= sem_idx /\ sem_idx < SemSlots /\ sem_data[sem_idx + 1] = <<<<>>, <<>>>>
    THEN [sem_data EXCEPT ![sem_idx + 1] = <<m.set_no, m.sgpa>>]
    ELSE sem_data

\* if 0 <= sem_idx < 8: sem_data[sem_idx] = [old_set_no, sem_sgpa]
StoreTriple(sem_data, m, sem_idx) ==
    IF 0 <= sem_idx /\ sem_idx < SemSlots
    THEN [sem_data EXCEPT ![sem_idx + 1] = <<m.set_no, m.sgpa>>]
    ELSE sem_data

RECURSIVE FillSlots(_, _)
\* the loop over historical_matches; int() of a run of decimal digits cannot raise
FillSlots(sem_data, matches) ==
    IF matches = <<>> THEN sem_data
    ELSE FillSlots(StoreTriple(sem_data, Head(matches), DecimalValue(Head(matches).sem) - 1),
                   Tail(matches))

\* the row append of every (set number, SGPA) pair, flattened
FlattenSemData(sem_data) ==
    [i \in 1..(2 * SemSlots) |-> sem_data[(i + 1) \div 2][2 - (i % 2)]]

\* the 8 (set number, SGPA) pairs appended to the row
SemData(text) ==
    FlattenSemData(FillSlots([k \in 1..SemSlots |-> <<<<>>, <<>>>>], HistoricalMatches(text)))

\* the state of the walk before the first subject: row = [seat_no, spid, gender]
WalkStart(tokens) ==
    [row |-> <<tokens[1], tokens[2], tokens[3]>>,
     int_ptr |-> 0, ext_ptr |-> 0, tot_ptr |-> 0,
     any_failed |-> FALSE, grand_int |-> 0, grand_ext |-> 0,
     subject_count |-> 0, exc |-> "none"]

\* the walk has ended in st: the grand totals, the result and the semester pairs
BuildResult(text, tokens, sec, st) ==
    IF st.exc # "none"
    THEN [kind |-> "raise", exc |-> st.exc, row |-> <<>>, tokens |-> tokens, sec |-> sec]
    ELSE [kind |-> "row", exc |-> "none",
          row |-> st.row
                    \o <<st.grand_int, st.grand_ext, st.grand_int + st.grand_ext,
                         IF st.any_failed THEN "Fail" ELSE "Pass">>
                    \o SemData(text),
          tokens |-> tokens, sec |-> sec]

\* the two passes over the sections
WalkSections(c, text, tokens, sec) ==
    BuildResult(text, tokens, sec,
                TheoryLoop(c.total_subjects - c.practical_subjects,
                           PracticalLoop(c.practical_subjects, WalkStart(tokens), sec),
                           sec))

\* parse_student_block from the token list on
ParseTokens(c, text, tokens) ==
    IF Len(tokens) < 4
    THEN [kind |-> "none", exc |-> "none", row |-> <<>>, tokens |-> tokens,
          sec |-> [ext_tokens |-> <<>>, int_tokens |-> <<>>, total_tokens |-> <<>>]]
    ELSE WalkSections(c, text, tokens, LocateSections(tokens))

\* text = " ".join(block); tokens = text.split()
ParseText(c, text) == ParseTokens(c, text, Split(text))

\* ResultParser.parse_student_block: kind is "none" (returns None), "raise" or
\* "row"; the token list and the section arrays are kept beside the row
ParseStudentBlock(c, block) == ParseText(c, Join(block, <<" ">>))

BuildColumnNamesSevenSemesters(c) ==
    LET Col(i, f) == [sub |-> i, field |-> f]
        P[i \in 0..c.practical_subjects] ==
            IF i = 0 THEN <<>>
            ELSE P[i - 1] \o <<Col(i, "TH_INT"), Col(i, "TH_EXT"), Col(i, "PR_INT"),
                                Col(i, "PR_EXT"), Col(i, "TH_PR_SUM"), Col(i, "TOTAL"),
                                Col(i, "GRADE")>>
        T[i \in c.practical_subjects..c.total_subjects] ==
            IF i = c.practical_subjects THEN <<>>
            ELSE T[i - 1] \o <<Col(i, "TH_INT"), Col(i, "TH_EXT"), Col(i, "TOTAL"),
                                Col(i, "GRADE")>>
        Sem[i \in 0..7] ==
            IF i = 0 THEN <<>>
            ELSE Sem[i - 1] \o <<Col(i, "SEM_SETNO"), Col(i, "SEM_SGPA")>>
    IN  <<Col(0, "SeatNo"), Col(0, "SPID"), Col(0, "Gender")>>
          \o P[c.practical_subjects]
          \o (IF c.total_subjects >= c.practical_subjects THEN T[c.total_subjects] ELSE <<>>)
          \o <<Col(0, "GRAND_INT"), Col(0, "GRAND_EXT"), Col(0, "GRAND_TOTAL"),
               Col(0, "RESULT")>>
          \o Sem[7]

\* ResultParser.build_column_names: a column is (subject number, field name),
\* subject 0 for the columns that belong to no subject
BuildColumnNames(c) ==
    LET Col(i, f) == [sub |-> i, field |-> f]
        Practical(i) == <<Col(i, "TH_INT"), Col(i, "TH_EXT"), Col(i, "PR_INT"),
                          Col(i, "PR_EXT"), Col(i, "TH_PR_SUM"), Col(i, "TOTAL"),
                          Col(i, "GRADE")>>
        Theory(i) == <<Col(i, "TH_INT"), Col(i, "TH_EXT"), Col(i, "TOTAL"), Col(i, "GRADE")>>
        P[i \in 0..c.practical_subjects] ==
            IF i = 0 THEN <<>> ELSE P[i - 1] \o Practical(i)
        T[i \in c.practical_subjects..c.total_subjects] ==
            IF i = c.practical_subjects THEN <<>> ELSE T[i - 1] \o Theory(i)
        Sem[i \in 0..8] ==
            IF i = 0 THEN <<>>
            ELSE Sem[i - 1] \o <<[sub |-> i, field |-> "SEM_SETNO"],
                                 [sub |-> i, field |-> "SEM_SGPA"]>>
    IN  <<Col(0, "SeatNo"), Col(0, "SPID"), Col(0, "Gender")>>
          \o P[c.practical_subjects]
          \o (IF c.total_subjects >= c.practical_subjects THEN T[c.total_subjects] ELSE <<>>)
          \o <<Col(0, "GRAND_INT"), Col(0, "GRAND_EXT"), Col(0, "GRAND_TOTAL"),
               Col(0, "RESULT")>>
          \o Sem[8]

(***************************************************************************)
(* Inputs of the single-call specifications                                *)
(***************************************************************************)
MaxSubjects == 7

MaxWalkSubjects == 3

MaxSecLen == 8

MaxMarkers == 3

MaxNoiseLen == 2

DigitChar(d) ==
    CASE d = 0 -> "0" [] d = 1 -> "1" [] d = 2 -> "2" [] d = 3 -> "3" [] d = 4 -> "4"
      [] d = 5 -> "5" [] d = 6 -> "6" [] d = 7 -> "7" [] d = 8 -> "8" [] d = 9 -> "9"

RECURSIVE NumTok(_)
\* the decimal token of a natural number
NumTok(n) == IF n < 10 THEN <<DigitChar(n)>> ELSE NumTok(n \div 10) \o <<DigitChar(n % 10)>>

\* a student header line: seat number, secondary ID, gender
HeaderLine == <<"1", "0", "0", "1", " ", "1", "2", "3", "4", "5", "6", "7", "8", "9", "0",
                " ", "M">>

\* a line made of a marker keyword followed by tokens
SectionLine(kw, toks) == Join(<<KeywordToken(kw)>> \o toks, <<" ">>)

Configs(maxTotal) ==
    {[total_subjects |-> t, practical_subjects |-> p] : t \in 1..maxTotal, p \in 0..maxTotal}
        \ {c \in [total_subjects : 1..maxTotal, practical_subjects : 0..maxTotal] :
             c.practical_subjects > c.total_subjects}

\* n tokens, all different: base + 1, base + 2, ...
Run(base, n) == [i \in 1..n |-> NumTok(base + i)]

\* the walk over sections of every length, each position holding its own value
WalkInputs ==
    {[cfg |-> c,
      block |-> <<HeaderLine, SectionLine("INT", Run(0, nI)), SectionLine("EXT", Run(10, nE)),
                  SectionLine("TOTAL", Run(30, nT))>>] :
        c \in Configs(MaxWalkSubjects), nI \in 0..MaxSecLen, nE \in 0..MaxSecLen,
        nT \in 0..MaxSecLen}

\* totals of 40 everywhere except one position that holds a value next to a threshold
GradeInputs ==
    {[cfg |-> c,
      block |-> <<HeaderLine, SectionLine("INT", Run(0, 2)), SectionLine("EXT", Run(10, 2)),
                  SectionLine("TOTAL", [i \in 1..x.n |-> IF i = x.lo THEN NumTok(x.v)
                                                         ELSE NumTok(40)])>>] :
        c \in Configs(MaxSubjects),
        x \in {y \in [n : 0..MaxSecLen, lo : 0..MaxSecLen, v : {17, 18, 34, 35}] : y.lo <= y.n}}

Arrangements == UNION {[1..k -> Keywords] : k \in 0..MaxMarkers}

\* marker lines in every order, with absent and repeated markers
MarkerInputs ==
    {[cfg |-> [total_subjects |-> 2, practical_subjects |-> 1],
      block |-> <<HeaderLine>> \o [i \in 1..Len(a) |-> SectionLine(a[i], Run(10 * i, n))]] :
        a \in Arrangements, n \in 0..2}

NoiseTokens ==
    {<<"2", "0", "+", "1", "0">>, <<"+">>, <<"7">>, <<"A", "B">>, <<"z", "e", "r", "o">>,
     <<"sup2">>, <<"2", "0", "+", "sup2">>}

NoiseSeqs == UNION {[1..k -> NoiseTokens] : k \in 0..MaxNoiseLen}

\* one section holding noisy tokens, the two others plain
NoiseInputs ==
    {[cfg |-> [total_subjects |-> 2, practical_subjects |-> 1],
      block |-> <<HeaderLine,
                  SectionLine("INT", IF kw = "INT" THEN noisy ELSE Run(0, 3)),
                  SectionLine("EXT", IF kw = "EXT" THEN noisy ELSE Run(10, 3)),
                  SectionLine("TOTAL", IF kw = "TOTAL" THEN noisy ELSE Run(40, 2))>>] :
        kw \in Keywords, noisy \in NoiseSeqs}

MaxTriples == 2

\* semester numbers in and out of 1..8, one with a leading zero
SemNumbers == {<<"0">>, <<"3">>, <<"8">>, <<"9">>, <<"0", "3">>}

\* (set number, SGPA); the last SGPA has one decimal only and makes no triple
SetAndSgpa ==
    {<<<<"1", "0", "0", "6", "8">>, <<"6", ".", "5", "5">>>>,
     <<<<"9", "9", "9", "9", "9">>, <<"7", ".", "1", "0">>>>,
     <<<<"1", "0", "0", "6", "8">>, <<"6", ".", "5">>>>}

TriplePalette == {[sem |-> s, set_no |-> x[1], sgpa |-> x[2]] : s \in SemNumbers, x \in SetAndSgpa}

\* a history line "sem - set - sgpa", with or without blanks around the dashes
TripleLine(tr, sep) == tr.sem \o sep \o tr.set_no \o sep \o tr.sgpa

\* a header followed by history lines
SemInputs ==
    {[cfg |-> [total_subjects |-> 1, practical_subjects |-> 0],
      triples |-> trs,
      block |-> <<HeaderLine>> \o [k \in 1..Len(trs) |-> TripleLine(trs[k], sep)]] :
        trs \in UNION {[1..n -> TriplePalette] : n \in 0..MaxTriples},
        sep \in {<<"-">>, <<" ", "-", " ">>}}

ParseInputs == WalkInputs \cup GradeInputs \cup MarkerInputs \cup NoiseInputs \cup SemInputs

NotCalled == [kind |-> "pending"]

(***************************************************************************)
(* SpecParse: one call of parse_student_block                              *)
(***************************************************************************)
\* the generator converter before it is called
ExtractIdle ==
    /\ student_details = <<>>
    /\ all_lines = <<>>
    /\ index = 0
    /\ all_students = <<>>
    /\ calls = <<>>

\* a session without entries
NoSession == [k \in {} |-> 0]

ProcessIdle ==
    /\ events = <<>>
    /\ ExtractIdle
    /\ session = NoSession
    /\ cfg = [total_subjects |-> 0, practical_subjects |-> 0]
    /\ doc = <<>>
    /\ pc = "idle"
    /\ page_idx = 0
    /\ lines = <<>>
    /\ current_block = <<>>
    /\ rows = <<>>
    /\ parsed = <<>>
    /\ progress = <<>>
    /\ output_csv = [written |-> FALSE]
    /\ metadata_df = [kind |-> "None"]

ProcessVars ==
    <<cfg, doc, pc, page_idx, lines, current_block, rows, parsed, progress, output_csv,
      metadata_df, events, ExtractVars, session>>

InitParse ==
    /\ ProcessIdle
    /\ fn = "parse_student_block"
    /\ arg \in ParseInputs
    /\ ret = NotCalled

CallParse ==
    /\ fn = "parse_student_block"
    /\ ret = NotCalled
    /\ ret' = ParseStudentBlock(arg.cfg, arg.block)
    /\ UNCHANGED <<fn, arg, ProcessVars>>

NextParse == CallParse

SpecParse == InitParse /\ [][NextParse]_vars

(***************************************************************************)
(* Claims about parse_student_block, checked under SpecParse               *)
(***************************************************************************)
\* the field of the returned row that stands under column (i, f)
Field(i, f) ==
    LET names == BuildColumnNames(arg.cfg)
    IN  ret.row[CHOOSE n \in 1..Len(names) : names[n] = [sub |-> i, field |-> f]]

NumPractical == arg.cfg.practical_subjects

NumSubjects == arg.cfg.total_subjects

\* position i (0-based) of a section array, "0" past its end
At(arr, i) == IF i < Len(arr) THEN arr[i + 1] ELSE <<"0">>

\* the TOTAL-section value of the subject processed i-th
TotalValue(i) == ToNumeric(At(ret.sec.total_tokens, i - 1)).val

\* the tokens the walk consumes, by the positions the claim gives
ConsumedTokens ==
    {At(ret.sec.int_tokens, 3 * (k - 1) + d) : k \in 1..NumPractical, d \in {0, 1}}
      \cup {At(ret.sec.ext_tokens, 3 * (k - 1) + d) : k \in 1..NumPractical, d \in {0, 1}}
      \cup {At(ret.sec.int_tokens, 3 * NumPractical + j - 1) : j \in 1..(NumSubjects - NumPractical)}
      \cup {At(ret.sec.ext_tokens, 3 * NumPractical + j - 1) : j \in 1..(NumSubjects - NumPractical)}
      \cup {At(ret.sec.total_tokens, i - 1) : i \in 1..NumSubjects}

FirstAt(toks, kw) ==
    IF \E i \in 1..Len(toks) : toks[i] = KeywordToken(kw)
    THEN CHOOSE i \in 1..Len(toks) :
            toks[i] = KeywordToken(kw) /\ \A j \in 1..(i - 1) : toks[j] # KeywordToken(kw)
    ELSE 0

\* the section the claim gives to kw: from the token after the marker's first
\* occurrence up to the nearest later first occurrence of another marker
ClaimedSection(toks, kw) ==
    IF FirstAt(toks, kw) = 0 THEN <<>>
    ELSE LET later == {FirstAt(toks, k) : k \in Keywords} \cap ((FirstAt(toks, kw) + 1)..Len(toks))
             stop == IF later = {} THEN Len(toks) + 1
                     ELSE CHOOSE x \in later : \A y \in later : x <= y
             slice == SubSeq(toks, FirstAt(toks, kw) + 1, stop - 1)
         IN  CleanSectionTokens([n \in 1..Len(slice) |-> Normalize(slice[n])])

\* C5: each section is the slice after the first occurrence of its marker up to
\* the next found marker (or the end); an absent marker gives an empty section
\* and no error; without an EXT marker every EXT-sourced field is zero.
C5_SectionLocation ==
    ret.kind \in {"row", "raise"} =>
        /\ ret.sec.ext_tokens = ClaimedSection(ret.tokens, "EXT")
        /\ ret.sec.int_tokens = ClaimedSection(ret.tokens, "INT")
        /\ ret.sec.total_tokens = ClaimedSection(ret.tokens, "TOTAL")
        /\ (FirstAt(ret.tokens, "EXT") = 0 /\ ret.kind = "row") =>
              /\ ret.sec.ext_tokens = <<>>
              /\ \A i \in 1..NumSubjects : Field(i, "TH_EXT") = <<"0">>
              /\ \A k \in 1..NumPractical : Field(k, "PR_EXT") = <<"0">>
              /\ Field(0, "GRAND_EXT") = 0

\* a row from a block with an INT and a TOTAL marker and no EXT marker
C5_Witness ==
    /\ ret.kind = "row"
    /\ FirstAt(ret.tokens, "EXT") = 0
    /\ FirstAt(ret.tokens, "INT") # 0
    /\ FirstAt(ret.tokens, "TOTAL") > FirstAt(ret.tokens, "INT")
    /\ Len(ret.sec.int_tokens) = 2
    /\ Len(ret.sec.total_tokens) = 2
    /\ Field(1, "TH_INT") # <<"0">>

\* the tokens between the first occurrence of a marker and the next found marker
RawSlice(toks, kw) ==
    IF FirstAt(toks, kw) = 0 THEN <<>>
    ELSE LET later == {FirstAt(toks, k) : k \in Keywords} \cap ((FirstAt(toks, kw) + 1)..Len(toks))
         IN  SubSeq(toks, FirstAt(toks, kw) + 1,
                    (IF later = {} THEN Len(toks) + 1
                     ELSE CHOOSE x \in later : \A y \in later : x <= y) - 1)

\* cleanSectionTokens first, normalize on every resulting token after it
CleanThenNormalize(slice) ==
    [n \in 1..Len(CleanSectionTokens(slice)) |-> Normalize(CleanSectionTokens(slice)[n])]

\* normalize on every token of the slice first, cleanSectionTokens after it
NormalizeThenClean(slice) ==
    CleanSectionTokens([n \in 1..Len(slice) |-> Normalize(slice[n])])

\* C14 as stated: each section's token array is cleanSectionTokens applied to
\* the slice (joined, blanks around '+' removed, split again) and then normalize
\* applied to every resulting token; the row stores the tokens of those arrays.
C14_CleanThenNormalize ==
    ret.kind \in {"row", "raise"} =>
        /\ ret.sec.ext_tokens = CleanThenNormalize(RawSlice(ret.tokens, "EXT"))
        /\ ret.sec.int_tokens = CleanThenNormalize(RawSlice(ret.tokens, "INT"))
        /\ ret.sec.total_tokens = CleanThenNormalize(RawSlice(ret.tokens, "TOTAL"))
        /\ ret.kind = "row" =>
              /\ Field(1, "TH_INT") = TokenAt(CleanThenNormalize(RawSlice(ret.tokens, "INT")), 0)
              /\ Field(1, "TH_EXT") = TokenAt(CleanThenNormalize(RawSlice(ret.tokens, "EXT")), 0)

\* C14 amended: each section's token array is normalize applied to every token
\* of the slice and then cleanSectionTokens applied to the result, so a ZERO
\* token next to a '+' token is merged as "0"; the row stores those tokens.
C14_NormalizeThenClean ==
    ret.kind \in {"row", "raise"} =>
        /\ ret.sec.ext_tokens = NormalizeThenClean(RawSlice(ret.tokens, "EXT"))
        /\ ret.sec.int_tokens = NormalizeThenClean(RawSlice(ret.tokens, "INT"))
        /\ ret.sec.total_tokens = NormalizeThenClean(RawSlice(ret.tokens, "TOTAL"))
        /\ ret.kind = "row" =>
              /\ Field(1, "TH_INT") = TokenAt(NormalizeThenClean(RawSlice(ret.tokens, "INT")), 0)
              /\ Field(1, "TH_EXT") = TokenAt(NormalizeThenClean(RawSlice(ret.tokens, "EXT")), 0)

\* the INT tokens "zero" and "+" are stored in the row as the one token "0+"
C14_Witness ==
    /\ ret.kind = "row"
    /\ RawSlice(ret.tokens, "INT") = <<<<"z", "e", "r", "o">>, <<"+">>>>
    /\ ret.sec.int_tokens = <<<<"0", "+">>>>
    /\ Field(1, "TH_INT") = <<"0", "+">>

\* the history lines of the block that are triples: the SGPA has two decimals
ValidTriples == {k \in 1..Len(arg.triples) : Len(arg.triples[k].sgpa) = 4}

\* the valid triples whose semester number is s
TriplesOf(s) == {k \in ValidTriples : DecimalValue(arg.triples[k].sem) = s}

\* C15: the 8 slots are filled from the triples of the block text from left to
\* right: a triple with semester s in 1..8 overwrites slot s (the last one
\* wins), a triple with semester 0 or above 8 changes no slot, and a slot
\* without a triple stays the empty pair.
C15_SemesterSlots ==
    (ret.kind = "row" /\ "triples" \in DOMAIN arg) =>
        \A s \in 1..8 :
            IF TriplesOf(s) = {}
            THEN Field(s, "SEM_SETNO") = <<>> /\ Field(s, "SEM_SGPA") = <<>>
            ELSE LET last == CHOOSE k \in TriplesOf(s) : \A j \in TriplesOf(s) : j <= k
                 IN  /\ Field(s, "SEM_SETNO") = arg.triples[last].set_no
                     /\ Field(s, "SEM_SGPA") = arg.triples[last].sgpa

\* "3 - 10068 - 6.55" followed by "3 - 99999 - 7.10" leaves slot 3 = (99999, 7.10)
C15_Witness ==
    /\ ret.kind = "row"
    /\ "triples" \in DOMAIN arg
    /\ arg.block[2] = <<"3", " ", "-", " ", "1", "0", "0", "6", "8", " ", "-", " ",
                         "6", ".", "5", "5">>
    /\ Len(arg.block) = 3
    /\ arg.block[3] = <<"3", " ", "-", " ", "9", "9", "9", "9", "9", " ", "-", " ",
                         "7", ".", "1", "0">>
    /\ Field(3, "SEM_SETNO") = <<"9", "9", "9", "9", "9">>
    /\ Field(3, "SEM_SGPA") = <<"7", ".", "1", "0">>
    /\ Field(8, "SEM_SETNO") = <<>>

\* the column the schema puts at position n of a row: identity, 7 fields per
\* practical subject, 4 per theory-only subject, grand totals and result, then
\* the 8 (set number, SGPA) pairs
SchemaColumn(n) ==
    LET P == NumPractical
        T == NumSubjects
        Col(i, f) == [sub |-> i, field |-> f]
    IN  IF n <= 3 THEN Col(0, <<"SeatNo", "SPID", "Gender">>[n])
        ELSE IF n <= 3 + 7 * P
             THEN Col((n - 4) \div 7 + 1,
                      <<"TH_INT", "TH_EXT", "PR_INT", "PR_EXT", "TH_PR_SUM", "TOTAL",
                        "GRADE">>[((n - 4) % 7) + 1])
        ELSE IF n <= 3 + 7 * P + 4 * (T - P)
             THEN Col(P + (n - 4 - 7 * P) \div 4 + 1,
                      <<"TH_INT", "TH_EXT", "TOTAL", "GRADE">>[((n - 4 - 7 * P) % 4) + 1])
        ELSE IF n <= 3 + 7 * P + 4 * (T - P) + 4
             THEN Col(0, <<"GRAND_INT", "GRAND_EXT", "GRAND_TOTAL",
                           "RESULT">>[n - (3 + 7 * P + 4 * (T - P))])
        ELSE Col((n - (3 + 7 * P + 4 * (T - P) + 4) - 1) \div 2 + 1,
                 IF (n - (3 + 7 * P + 4 * (T - P) + 4)) % 2 = 1 THEN "SEM_SETNO"
                 ELSE "SEM_SGPA")

GradeWords == {"Distinction", "First", "Second", "Pass", "Fail"}

\* C16: for 0 <= practical <= total and a block of at least 4 tokens, whatever
\* its tokens, the returned row has as many fields as build_column_names has
\* names, 3 + 7*practical + 4*(total - practical) + 4 + 16, in the order of the
\* names: identity, practical subjects, theory-only subjects, grand totals and
\* result, the 8 set-number/SGPA pairs.
C16_RowSchema ==
    (ret.kind = "row" /\ NumPractical <= NumSubjects) =>
        /\ Len(ret.row) = 3 + 7 * NumPractical + 4 * (NumSubjects - NumPractical) + 4 + 16
        /\ Len(BuildColumnNames(arg.cfg)) = Len(ret.row)
        /\ \A n \in 1..Len(ret.row) : BuildColumnNames(arg.cfg)[n] = SchemaColumn(n)
        /\ \A n \in 1..3 : ret.row[n] = ret.tokens[n]
        /\ \A n \in 1..Len(ret.row) :
              /\ SchemaColumn(n).field = "GRADE" => ret.row[n] \in GradeWords
              /\ SchemaColumn(n).field = "RESULT" => ret.row[n] \in {"Pass", "Fail"}
              /\ SchemaColumn(n).field = "GRAND_TOTAL" => ret.row[n] = ret.row[n - 2] + ret.row[n - 1]
              /\ SchemaColumn(n).field = "TH_PR_SUM" =>
                    ret.row[n] = ToNumeric(ret.row[n - 4]).val + ToNumeric(ret.row[n - 3]).val
                                    + ToNumeric(ret.row[n - 2]).val + ToNumeric(ret.row[n - 1]).val
              /\ SchemaColumn(n).field \in {"SEM_SETNO", "SEM_SGPA"} =>
                    ("triples" \notin DOMAIN arg => ret.row[n] = <<>>)

\* 3 practical and 4 theory-only subjects: a row of 60 fields
C16_Witness ==
    /\ ret.kind = "row"
    /\ NumPractical = 3 /\ NumSubjects = 7
    /\ Len(ret.row) = 60
    /\ ret.row[4] = ret.sec.int_tokens[1]
    /\ ret.row[25] = <<"0">>
    /\ ret.row[44] \in {"Pass", "Fail"}

\* C6: for every subject, practical or theory-only, column SUBi_TOTAL holds the
\* value of the subject's TOTAL-section token and the grade is computed from it;
\* neither is recomputed from the internal and external components.
C6_SubjectTotalFromTotalSection ==
    ret.kind = "row" =>
        \A i \in 1..NumSubjects :
            /\ Field(i, "TOTAL") = TotalValue(i)
            /\ Field(i, "GRADE") = GetGrade(Field(i, "TOTAL"), IF i = 6 THEN 50 ELSE 100)

\* C8: exactly the subject processed sixth is graded on the 50 scale: a total
\* from 18 to 34 is graded Fail in every subject but the sixth, and every grade
\* is the grade of the subject's total on its scale.
C8_SixthSubjectOn50Scale ==
    ret.kind = "row" =>
        \A i \in 1..NumSubjects :
            /\ Field(i, "GRADE") = GetGrade(TotalValue(i), IF i = 6 THEN 50 ELSE 100)
            /\ TotalValue(i) \in 18..34 => (Field(i, "GRADE") = "Fail" <=> i # 6)
            /\ TotalValue(i) = 18 /\ i = 6 => Field(i, "GRADE") = "Pass"

\* 6 subjects of which 4 practical, the sixth with a total of 18 graded Pass
C8_Witness ==
    /\ ret.kind = "row"
    /\ NumSubjects = 6 /\ NumPractical = 4
    /\ Len(ret.sec.total_tokens) >= 6
    /\ ret.sec.total_tokens[6] = NumTok(18)
    /\ Field(6, "GRADE") = "Pass"
    /\ Field(0, "RESULT") = "Pass"

\* C9: RESULT is "Fail" if and only if at least one processed subject was graded
\* Fail, and "Pass" otherwise.
C9_OverallResult ==
    ret.kind = "row" =>
        /\ Field(0, "RESULT") \in {"Fail", "Pass"}
        /\ Field(0, "RESULT") = "Fail" <=> \E i \in 1..NumSubjects : Field(i, "GRADE") = "Fail"

\* a row that fails although its last subject passed
C9_Witness ==
    /\ ret.kind = "row"
    /\ NumSubjects >= 3
    /\ Field(0, "RESULT") = "Fail"
    /\ Field(1, "GRADE") = "Fail"
    /\ \A i \in 2..NumSubjects : Field(i, "GRADE") # "Fail"

\* the sum of toNumeric over the components of kind f that the row holds
ComponentSum(f, upTo) ==
    LET S[i \in 0..upTo] == IF i = 0 THEN 0 ELSE S[i - 1] + ToNumeric(Field(i, f)).val
    IN  S[upTo]

\* C10: GRAND_INT is the sum of toNumeric of every consumed internal component,
\* GRAND_EXT the same over the external components, GRAND_TOTAL their sum; the
\* skipped subtotal tokens and the TOTAL-section values do not enter.
C10_GrandTotals ==
    ret.kind = "row" =>
        /\ Field(0, "GRAND_INT")
             = ComponentSum("TH_INT", NumSubjects) + ComponentSum("PR_INT", NumPractical)
        /\ Field(0, "GRAND_EXT")
             = ComponentSum("TH_EXT", NumSubjects) + ComponentSum("PR_EXT", NumPractical)
        /\ Field(0, "GRAND_TOTAL") = Field(0, "GRAND_INT") + Field(0, "GRAND_EXT")

\* 2 practical subjects and 1 theory-only, all their components and the skipped
\* subtotals present and non-zero: INT 1..7 gives 1+2+4+5+7, EXT 11..17 gives
\* 11+12+14+15+17
C10_Witness ==
    /\ ret.kind = "row"
    /\ NumPractical = 2 /\ NumSubjects = 3
    /\ ret.sec.int_tokens = Run(0, 7)
    /\ ret.sec.ext_tokens = Run(10, 7)
    /\ Len(ret.sec.total_tokens) = 3
    /\ Field(0, "GRAND_INT") = 19
    /\ Field(0, "GRAND_EXT") = 69
    /\ Field(0, "GRAND_TOTAL") = 88

(***************************************************************************)
(* SpecGrade: get_grade on two marks of one scale                          *)
(***************************************************************************)
MaxMarksValue == 75

\* 50, 100 and a value that is neither
GradeScales == {50, 100, 75}

GradeInputs2 ==
    {x \in [marks : 0..MaxMarksValue, marks2 : 0..MaxMarksValue, max_marks : GradeScales] :
        x.marks <= x.marks2}

InitGrade ==
    /\ ProcessIdle
    /\ fn = "get_grade"
    /\ arg \in GradeInputs2
    /\ ret = NotCalled

CallGetGrade ==
    /\ fn = "get_grade"
    /\ ret = NotCalled
    /\ ret' = [kind |-> "grades",
               grade |-> GetGrade(arg.marks, arg.max_marks),
               grade2 |-> GetGrade(arg.marks2, arg.max_marks)]
    /\ UNCHANGED <<fn, arg, ProcessVars>>

NextGrade == CallGetGrade

SpecGrade == InitGrade /\ [][NextGrade]_vars

GradeRank(g) ==
    CASE g = "Fail" -> 0 [] g = "Pass" -> 1 [] g = "Second" -> 2 [] g = "First" -> 3
      [] g = "Distinction" -> 4

\* the Pass, Second, First and Distinction thresholds of a scale
Thresholds(max_marks) == IF max_marks = 50 THEN <<18, 25, 30, 35>> ELSE <<35, 50, 60, 70>>

\* C7: on the 50 scale >= 35 Distinction, >= 30 First, >= 25 Second, >= 18 Pass,
\* else Fail; on the 100 scale (every other maxMarks) 70, 60, 50, 35; the grade
\* is non-decreasing in marks and is Fail iff marks is below the Pass threshold.
C7_GradePolicy ==
    ret.kind = "grades" =>
        LET th == Thresholds(arg.max_marks)
        IN  /\ GradeRank(ret.grade) = Cardinality({i \in 1..4 : arg.marks >= th[i]})
            /\ GradeRank(ret.grade2) = Cardinality({i \in 1..4 : arg.marks2 >= th[i]})
            /\ GradeRank(ret.grade) <= GradeRank(ret.grade2)
            /\ ret.grade = "Fail" <=> arg.marks < th[1]

\* 18 on the 50 scale is a Pass and 35 a Distinction
C7_Witness ==
    /\ ret.kind = "grades"
    /\ arg.max_marks = 50
    /\ arg.marks = 18 /\ ret.grade = "Pass"
    /\ arg.marks2 = 35 /\ ret.grade2 = "Distinction"

(***************************************************************************)
(* SpecNumeric: one call of normalize or of to_numeric on a string         *)
(***************************************************************************)
MaxTokLen == 3

NumericAlphabet == {"2", "7", "+", "A", " ", "sup2"}

\* spellings of ZERO and near misses
ZeroVariants ==
    {ZERO, <<"z", "e", "r", "o">>, <<"Z", "e", "r", "O">>, <<"Z", "E", "R", "O", "S">>,
     <<"Z", "E", " ", "R", "O">>, <<"Z", "E", "R">>}

\* the tokens the documentation of to_numeric names, and two relatives
NumericExamples ==
    {<<"2", "0", "+", "1", "0">>, <<"2", "0", " ", "+", " ", "1", "0">>,
     <<"2", "0", "+", "A", "B">>, <<"2", "0", "+", "sup2">>, <<"2", "0", "7">>}

Pads == {<<>>, <<" ">>, <<"\n", " ">>}

NumericInputs ==
    {None} \cup
    {l \o c \o r :
        l \in Pads, r \in Pads,
        c \in UNION {[1..n -> NumericAlphabet] : n \in 0..MaxTokLen}
                \cup ZeroVariants \cup NumericExamples}

InitNumeric ==
    /\ ProcessIdle
    /\ fn \in {"normalize", "to_numeric"}
    /\ arg \in NumericInputs
    /\ ret = NotCalled

CallNormalize ==
    /\ fn = "normalize"
    /\ ret = NotCalled
    /\ ret' = [kind |-> "str", val |-> Normalize(arg)]
    /\ UNCHANGED <<fn, arg, ProcessVars>>

CallToNumeric ==
    /\ fn = "to_numeric"
    /\ ret = NotCalled
    /\ ret' = [kind |-> "numeric", result |-> ToNumeric(arg)]
    /\ UNCHANGED <<fn, arg, ProcessVars>>

NextNumeric == CallNormalize \/ CallToNumeric

SpecNumeric == InitNumeric /\ [][NextNumeric]_vars

\* C11: to_numeric returns an integer and raises no exception, for every string:
\* the empty string, tokens without digits, tokens of characters that only look
\* like digits, '+'-joined tokens with digit and non-digit segments.
C11_ToNumericNeverRaises ==
    ret.kind = "numeric" => ret.result.exc = "none"

\* a string of decimal digits only
AllDigits(s) == s # <<>> /\ \A i \in 1..Len(s) : s[i] \in Digits

\* what a '+'-separated segment contributes: its value when it consists only of
\* digits (surrounding blanks, which a token cannot hold, are not counted
\* against it), and 0 otherwise
SegmentValue(seg) == IF AllDigits(Strip(seg)) THEN DecimalValue(Strip(seg)) ELSE 0

RECURSIVE SumOfSegmentValues(_)
SumOfSegmentValues(segs) ==
    IF segs = <<>> THEN 0 ELSE SegmentValue(Head(segs)) + SumOfSegmentValues(Tail(segs))

\* C12: after normalize, a token with '+' yields the sum of the values of its
\* all-digit segments, every other segment contributing 0 ("20+10" gives 30,
\* "20+AB" gives 20); a token without '+' yields its value when it is all digits
\* and 0 otherwise.
C12_ToNumericValue ==
    (ret.kind = "numeric" /\ ret.result.exc = "none") =>
        ret.result.val =
            (IF \E i \in 1..Len(Normalize(arg)) : Normalize(arg)[i] = "+"
             THEN SumOfSegmentValues(SplitOn(Normalize(arg), "+"))
             ELSE SegmentValue(Normalize(arg)))

\* s is t with whitespace removed at both ends and nothing else changed
IsTrimOf(s, t) ==
    /\ s # <<>> => (s[1] \notin Whitespace /\ s[Len(s)] \notin Whitespace)
    /\ \E lo \in 0..Len(t) :
          /\ lo + Len(s) <= Len(t)
          /\ \A i \in 1..Len(t) :
                IF i > lo /\ i <= lo + Len(s) THEN t[i] = s[i - lo]
                ELSE t[i] \in Whitespace

\* the letters of ZERO in either case
IsZeroWord(s) ==
    /\ Len(s) = 4
    /\ s[1] \in {"Z", "z"} /\ s[2] \in {"E", "e"} /\ s[3] \in {"R", "r"} /\ s[4] \in {"O", "o"}

\* C13: normalize returns "0" for an empty or absent token and for a token that
\* is ZERO, in any letter case, once trimmed; otherwise it returns the token with
\* the surrounding whitespace removed and nothing else changed.
C13_Normalize ==
    ret.kind = "str" =>
        IF arg = None \/ arg = <<>> THEN ret.val = <<"0">>
        ELSE IF \E z \in ZeroVariants : IsZeroWord(z) /\ IsTrimOf(z, arg)
             THEN ret.val = <<"0">>
             ELSE IsTrimOf(ret.val, arg)

\* " zero" with blanks around it is normalized to "0"
C13_Witness ==
    /\ ret.kind = "str"
    /\ arg = <<" ", "z", "e", "r", "o", "\n", " ">>
    /\ ret.val = <<"0">>

(***************************************************************************)
(* Spec: ResultParser.process over a document                              *)
(***************************************************************************)
MaxPages == 3

MaxDocLines == 3

\* a second student header, indented, with longer digit runs and no third token
HeaderLineB == <<" ", "2", "0", "0", "2", "2", " ", "1", "2", "3", "4", "5", "6", "7", "8",
                 "9", "0", "1">>

\* a student header that carries a fourth token
HeaderLineA == HeaderLine \o <<" ", "X">>

\* not a header: its first run has three digits only
NearLine == <<"1", "2", "3", " ", "1", "2", "3", "4", "5", "6", "7", "8", "9", "0">>

\* a TOTAL line whose only token passes isdigit() and is refused by int()
BadLine == <<"T", "O", "T", "A", "L", " ", "sup2">>

BoundaryLines == {HeaderLineA, HeaderLineB}

LinePalette == BoundaryLines \cup {NearLine, BadLine}

FlatDocs == UNION {[1..n -> LinePalette] : n \in 0..MaxDocLines}

\* the pages cut out of a line sequence at the given positions
Paginate(flat, cuts) ==
    [i \in 1..Len(cuts) |->
        SubSeq(flat, (IF i = 1 THEN 0 ELSE cuts[i - 1]) + 1, cuts[i])]

\* every split of at most MaxDocLines lines into at most MaxPages pages; a page
\* may hold no line (a page without text)
Docs ==
    {<<>>} \cup
    UNION {{Paginate(flat, cuts) :
                cuts \in {c \in UNION {[1..k -> 0..MaxDocLines] : k \in 1..MaxPages} :
                            /\ c[Len(c)] = Len(flat)
                            /\ \A i \in 1..(Len(c) - 1) : c[i] <= c[i + 1]}} :
           flat \in FlatDocs}

\* page.extract_text(): the lines of the page joined by newlines, "" for none
ExtractText(page) == Join(page, <<"\n">>)

\* length of the run of characters of class cls that starts at position from
RunLength(s, from, cls) ==
    LET stops == {i \in from..Len(s) : s[i] \notin cls}
    IN  IF stops = {} THEN Len(s) - from + 1
        ELSE (CHOOSE i \in stops : \A j \in stops : i <= j) - from

IsBoundaryThreeDigits(s) ==
    LET seat == RunLength(s, 1, Digits)
        gap == RunLength(s, seat + 1, Whitespace)
        id == RunLength(s, seat + gap + 1, Digits)
    IN  seat >= 3 /\ gap >= 1 /\ id >= 10

\* re.match(r"^\d{4,}\s+\d{10,}", s)
IsBoundary(s) ==
    LET seat == RunLength(s, 1, Digits)
        gap == RunLength(s, seat + 1, Whitespace)
        id == RunLength(s, seat + gap + 1, Digits)
    IN  seat >= 4 /\ gap >= 1 /\ id >= 10

CollectUnchecked(rws, data) == IF data.kind = "raise" THEN rws ELSE Append(rws, data.row)

\* try: data = ...; if data: rows.append(data)  except Exception: (logged)
Collect(rws, data) == IF data.kind = "row" THEN Append(rws, data.row) ELSE rws

AppendLineAlways(block, line) == Append(block, line)

\* if current_block: current_block.append(line)
AppendLine(block, line) == IF block # <<>> THEN Append(block, line) ELSE block

(***************************************************************************)
(* The identity table and its merge (pandas)                               *)
(***************************************************************************)
NoMetadata == [kind |-> "None"]

\* table cells: a str, an int, or the missing value NaN
StrCell(s) == [t |-> "str", s |-> s, n |-> 0]

IntCell(n) == [t |-> "int", s |-> <<>>, n |-> n]

NaN == [t |-> "nan", s |-> <<>>, n |-> 0]

\* a column name of the output table that belongs to no subject
Col0(f) == [sub |-> 0, field |-> f]

\* pd.DataFrame(rows, columns=...)
DataFrame(rws, columns) == [columns |-> columns, rows |-> rws]

\* astype(str) on one cell
AsStr(cell) ==
    IF cell.t = "int" THEN NumTok(cell.n)
    ELSE IF cell.t = "nan" THEN <<"n", "a", "n">>
    ELSE cell.s

MetaKeyUntrimmed(cell) == AsStr(cell)

\* .astype(str).str.strip() on one cell of the SPID column
MetaKey(cell) == Strip(AsStr(cell))

\* 'SPID' in metadata_df.columns, and its position
HasColumn(table, f) == \E i \in 1..Len(table.columns) : table.columns[i] = f

ColumnIndex(columns, f) == CHOOSE i \in 1..Len(columns) : columns[i] = f

\* self.metadata_df['SPID'] = self.metadata_df['SPID'].astype(str).str.strip()
StripKeyColumn(table) ==
    [table EXCEPT !.rows =
        [j \in 1..Len(table.rows) |->
            [table.rows[j] EXCEPT ![ColumnIndex(table.columns, "SPID")] = StrCell(MetaKey(@))]]]

\* self.metadata_df after process: the assignment above is made in place
MetadataAfterMerge(meta) ==
    IF meta.kind = "None" THEN meta
    ELSE IF HasColumn(meta, "SPID") THEN StripKeyColumn(meta)
    ELSE meta

\* df['SPID'] = df['SPID'].astype(str).str.strip(): the row fields are str already
StripLeftKey(df) ==
    [df EXCEPT !.rows =
        [i \in 1..Len(df.rows) |->
            [df.rows[i] EXCEPT ![ColumnIndex(df.columns, Col0("SPID"))] = Strip(@)]]]

DesiredCols == <<"SPID", "ID", "CAST", "NAME", "ENROLLMENT NO", "APPLICATION ID">>

\* existing_cols = [c for c in desired_cols if c in self.metadata_df.columns]
ExistingCols(table) == SelectSeq(DesiredCols, LAMBDA f : HasColumn(table, f))

\* the columns the merge adds to the left table: those of meta_subset but the key
AddedCols(table) == SelectSeq(ExistingCols(table), LAMBDA f : f # "SPID")

\* the cells a metadata row gives to the added columns
AddedCells(table, j, added) ==
    [n \in 1..Len(added) |-> table.rows[j][ColumnIndex(table.columns, added[n])]]

RECURSIVE MatchesFrom(_, _, _, _)
\* the rows of the right table whose key equals key, from row j on, as joined rows
MatchesFrom(left, key, table, j) ==
    IF j > Len(table.rows) THEN <<>>
    ELSE (IF table.rows[j][ColumnIndex(table.columns, "SPID")].s = key
          THEN <<left \o AddedCells(table, j, AddedCols(table))>>
          ELSE <<>>)
         \o MatchesFrom(left, key, table, j + 1)

\* how='left': a left row without a match is kept, with NaN in the added columns
JoinedRows(left, matches, table) ==
    IF matches = <<>> THEN <<left \o [n \in 1..Len(AddedCols(table)) |-> NaN]>>
    ELSE matches

RECURSIVE LeftJoinRows(_, _, _)
LeftJoinRows(df, table, i) ==
    IF i > Len(df.rows) THEN <<>>
    ELSE JoinedRows(df.rows[i],
                    MatchesFrom(df.rows[i], df.rows[i][ColumnIndex(df.columns, Col0("SPID"))],
                                table, 1),
                    table)
         \o LeftJoinRows(df, table, i + 1)

\* pd.merge(df, meta_subset, on='SPID', how='left'); every key is a stripped str
LeftJoin(df, table) ==
    [columns |-> df.columns
                    \o [n \in 1..Len(AddedCols(table)) |-> Col0(AddedCols(table)[n])],
     rows |-> LeftJoinRows(df, table, 1)]

PreferredOrder == <<"SeatNo", "SPID", "ID", "CAST", "NAME">>

\* ordered_cols + remaining_cols
ReorderedColumns(final_cols) ==
    LET InFinal(c) == \E n \in 1..Len(final_cols) : final_cols[n] = c
        Preferred(c) == \E n \in 1..Len(PreferredOrder) : Col0(PreferredOrder[n]) = c
    IN  SelectSeq([n \in 1..Len(PreferredOrder) |-> Col0(PreferredOrder[n])], InFinal)
          \o SelectSeq(final_cols, LAMBDA c : ~Preferred(c))

\* df = df[ordered_cols + remaining_cols]
Reorder(df, columns) ==
    [columns |-> columns,
     rows |-> [i \in 1..Len(df.rows) |->
                 [n \in 1..Len(columns) |-> df.rows[i][ColumnIndex(df.columns, columns[n])]]]]

ReorderedJoin(joined) == Reorder(joined, ReorderedColumns(joined.columns))

\* the body of the try: the KeyError of metadata_df['SPID'], or the merged table
TryMerge(df, meta) ==
    IF ~HasColumn(meta, "SPID") THEN [exc |-> "KeyError", df |-> StripLeftKey(df)]
    ELSE IF ExistingCols(meta) = <<>> THEN [exc |-> "none", df |-> StripLeftKey(df)]
    ELSE [exc |-> "none", df |-> ReorderedJoin(LeftJoin(StripLeftKey(df), StripKeyColumn(meta)))]

PropagateMergeFailure(attempt, df) == attempt

\* except Exception as e: logger.error(...) -- df is what it was before the merge
CatchMergeFailure(attempt, df) ==
    IF attempt.exc # "none" THEN [exc |-> "none", df |-> df] ELSE attempt

\* if self.metadata_df is not None: try: ... except Exception: ...
MergeMetadata(df, meta) ==
    IF meta.kind = "None" THEN [exc |-> "none", df |-> df]
    ELSE CatchMergeFailure(TryMerge(df, meta), StripLeftKey(df))

Init ==
    /\ cfg = [total_subjects |-> 1, practical_subjects |-> 0]
    /\ doc \in Docs
    /\ pc = "page"
    /\ page_idx = 0
    /\ lines = <<>>
    /\ current_block = <<>>
    /\ rows = <<>>
    /\ parsed = <<>>
    /\ progress = <<>>
    /\ events = <<>>
    /\ ExtractIdle
    /\ session = NoSession
    /\ output_csv = [written |-> FALSE]
    /\ metadata_df = NoMetadata
    /\ fn = "process"
    /\ arg = [kind |-> "document"]
    /\ ret = NotCalled

\* for page_idx, page in enumerate(pdf.pages): extract the text, report progress,
\* skip a page without text, else split the text into lines
ExtractPage ==
    /\ pc = "page"
    /\ page_idx < Len(doc)
    /\ LET text == ExtractText(doc[page_idx + 1])
       IN  /\ events' = events \o <<[kind |-> "extract", page |-> page_idx + 1],
                                    [kind |-> "progress", page |-> page_idx + 1]>>
           /\ progress' = Append(progress, <<page_idx + 1, Len(doc)>>)
           /\ page_idx' = page_idx + 1
           /\ IF text = <<>>
              THEN /\ lines' = <<>>
                   /\ pc' = "page"
              ELSE /\ lines' = SplitOn(text, "\n")
                   /\ pc' = "line"
    /\ UNCHANGED <<cfg, doc, current_block, rows, parsed, output_csv, metadata_df, fn, arg, ret,
                   ExtractVars, session>>

\* for line in lines: one iteration
HandleLine ==
    /\ pc = "line"
    /\ lines # <<>>
    /\ LET line == Head(lines)
       IN  IF IsBoundary(Strip(line))
           THEN /\ IF current_block # <<>>
                   THEN /\ rows' = Collect(rows, ParseStudentBlock(cfg, current_block))
                        /\ parsed' = Append(parsed, current_block)
                   ELSE UNCHANGED <<rows, parsed>>
                /\ current_block' = <<line>>
           ELSE /\ current_block' = AppendLine(current_block, line)
                /\ UNCHANGED <<rows, parsed>>
    /\ lines' = Tail(lines)
    /\ pc' = IF Tail(lines) = <<>> THEN "page" ELSE "line"
    /\ UNCHANGED <<cfg, doc, page_idx, progress, output_csv, metadata_df, fn, arg, ret, events,
                   ExtractVars, session>>

\* df.to_csv(output_csv, index=False); return len(rows) -- unless the merge let
\* an exception out of process
WriteAndReturn(merged, rws) ==
    IF merged.exc = "none"
    THEN /\ output_csv' = [written |-> TRUE, columns |-> merged.df.columns,
                            rows |-> merged.df.rows]
         /\ ret' = [kind |-> "count", count |-> Len(rws)]
    ELSE /\ output_csv' = output_csv
         /\ ret' = [kind |-> "raise", exc |-> merged.exc]

\* after the last page: parse the block still open, build the table, merge the
\* identity table into it when there is one, write it and return the number of
\* rows
Finish ==
    /\ pc = "page"
    /\ page_idx = Len(doc)
    /\ IF current_block # <<>>
       THEN /\ rows' = Collect(rows, ParseStudentBlock(cfg, current_block))
            /\ parsed' = Append(parsed, current_block)
       ELSE UNCHANGED <<rows, parsed>>
    /\ WriteAndReturn(MergeMetadata(DataFrame(rows', BuildColumnNames(cfg)), metadata_df),
                      rows')
    /\ metadata_df' = MetadataAfterMerge(metadata_df)
    /\ pc' = "done"
    /\ UNCHANGED <<cfg, doc, page_idx, lines, current_block, progress, fn, arg, events,
                   ExtractVars, session>>

Next == ExtractPage \/ HandleLine \/ Finish

Spec == Init /\ [][Next]_vars

(***************************************************************************)
(* SpecMerge: process with an identity table, over one-page documents of   *)
(* student headers                                                         *)
(***************************************************************************)
MaxMergeLines == 2

MaxMetaRows == 2

\* a third student header, with another secondary ID
HeaderLineC == <<"1", "0", "0", "2", " ", "1", "2", "3", "4", "5", "6", "7", "8", "9", "1",
                 " ", "F", " ", "X">>

\* HeaderLineB opens a block of two tokens, which gives no row
MergeLines == {HeaderLineA, HeaderLineC, HeaderLineB}

MergeDocs == {<<flat>> : flat \in UNION {[1..n -> MergeLines] : n \in 0..MaxMergeLines}}

\* identity entries: the ID of HeaderLineA as a str, the same ID with blanks
\* around it, the ID of HeaderLineC as an int, and an ID no header carries
MetaEntries ==
    {[SPID |-> StrCell(<<"1", "2", "3", "4", "5", "6", "7", "8", "9", "0">>),
      ID |-> IntCell(1), NAME |-> StrCell(<<"A">>), PHONE |-> IntCell(11)],
     [SPID |-> StrCell(<<" ", "1", "2", "3", "4", "5", "6", "7", "8", "9", "0", " ">>),
      ID |-> IntCell(2), NAME |-> StrCell(<<"B">>), PHONE |-> IntCell(22)],
     [SPID |-> IntCell(1234567891),
      ID |-> IntCell(3), NAME |-> StrCell(<<"C">>), PHONE |-> IntCell(33)],
     [SPID |-> StrCell(<<"5", "5", "5", "5", "5", "5", "5", "5", "5", "5">>),
      ID |-> IntCell(4), NAME |-> StrCell(<<"D">>), PHONE |-> IntCell(44)]}

\* column layouts: key and name; all columns with the key in second place and a
\* column the merge does not ask for; no key column
MetaLayouts == {<<"SPID", "NAME">>, <<"NAME", "SPID", "ID", "PHONE">>, <<"NAME", "ID">>}

MetaTable(layout, entries) ==
    [kind |-> "table", columns |-> layout,
     rows |-> [j \in 1..Len(entries) |-> [n \in 1..Len(layout) |-> entries[j][layout[n]]]]]

MetadataTables ==
    {MetaTable(layout, entries) :
        layout \in MetaLayouts,
        entries \in UNION {[1..n -> MetaEntries] : n \in 0..MaxMetaRows}}

InitMerge ==
    /\ cfg = [total_subjects |-> 1, practical_subjects |-> 0]
    /\ doc \in MergeDocs
    /\ pc = "page"
    /\ page_idx = 0
    /\ lines = <<>>
    /\ current_block = <<>>
    /\ rows = <<>>
    /\ parsed = <<>>
    /\ progress = <<>>
    /\ events = <<>>
    /\ ExtractIdle
    /\ session = NoSession
    /\ output_csv = [written |-> FALSE]
    /\ metadata_df \in MetadataTables
    /\ fn = "process"
    /\ arg \in {[kind |-> "document", metadata_df |-> metadata_df]}
    /\ ret = NotCalled

SpecMerge == InitMerge /\ [][Next]_vars

(***************************************************************************)
(* Claims about the merge, checked under SpecMerge                         *)
(***************************************************************************)
\* the identity table as it was supplied
GivenTable == arg.metadata_df

\* the field of output row k under a column
OutCell(k, col) == output_csv.rows[k][ColumnIndex(output_csv.columns, col)]

\* output row k holds the fields of a parsed row under the parser's own columns
LeftPartIs(k, row) ==
    \A n \in 1..Len(BuildColumnNames(cfg)) : OutCell(k, BuildColumnNames(cfg)[n]) = row[n]

\* the entries of the supplied table whose secondary ID, as a trimmed string,
\* is spid
EntriesFor(spid) ==
    {j \in 1..Len(GivenTable.rows) :
        Strip(AsStr(GivenTable.rows[j][ColumnIndex(GivenTable.columns, "SPID")])) = spid}

\* the metadata fields the join brings into the output
JoinedFields ==
    {f \in {"ID", "CAST", "NAME", "ENROLLMENT NO", "APPLICATION ID"} : HasColumn(GivenTable, f)}

CarriesEntry(k, j) ==
    \A f \in JoinedFields :
        OutCell(k, Col0(f)) = GivenTable.rows[j][ColumnIndex(GivenTable.columns, f)]

CarriesNothing(k) == \A f \in JoinedFields : OutCell(k, Col0(f)) = NaN

\* C18: with an identity table, each parsed row is joined to the entry whose
\* secondary ID equals the row's after both are made strings and trimmed (the
\* entry " 1234567890 " joins the row "1234567890"); a row without a matching
\* entry stays in the output with empty metadata fields and is never dropped.
C18_MetadataLeftJoin ==
    (pc = "done" /\ HasColumn(GivenTable, "SPID")) =>
        /\ ret.kind = "count"
        /\ output_csv.written
        /\ \A f \in JoinedFields : HasColumn(output_csv, Col0(f))
        /\ \A i \in 1..Len(rows) :
              IF EntriesFor(rows[i][2]) = {}
              THEN \E k \in 1..Len(output_csv.rows) : LeftPartIs(k, rows[i]) /\ CarriesNothing(k)
              ELSE \A j \in EntriesFor(rows[i][2]) :
                      \E k \in 1..Len(output_csv.rows) :
                          LeftPartIs(k, rows[i]) /\ CarriesEntry(k, j)
        /\ \A k \in 1..Len(output_csv.rows) :
              \E i \in 1..Len(rows) :
                  /\ LeftPartIs(k, rows[i])
                  /\ IF EntriesFor(rows[i][2]) = {} THEN CarriesNothing(k)
                     ELSE \E j \in EntriesFor(rows[i][2]) : CarriesEntry(k, j)

\* the entry with blanks around its ID joins the first student; the second
\* student has no entry and keeps its row, with an empty NAME
C18_Witness ==
    /\ pc = "done"
    /\ doc = <<<<HeaderLineA, HeaderLineC>>>>
    /\ GivenTable.columns = <<"SPID", "NAME">>
    /\ Len(GivenTable.rows) = 1
    /\ GivenTable.rows[1][1] = StrCell(<<" ", "1", "2", "3", "4", "5", "6", "7", "8", "9",
                                          "0", " ">>)
    /\ Len(output_csv.rows) = 2
    /\ OutCell(1, Col0("NAME")) = StrCell(<<"B">>)
    /\ OutCell(2, Col0("SPID")) = <<"1", "2", "3", "4", "5", "6", "7", "8", "9", "1">>
    /\ OutCell(2, Col0("NAME")) = NaN

\* C19: for every identity table, also one that lists a secondary ID more than
\* once, the table written has exactly one row per successfully parsed block,
\* and the count process returns is the number of rows written.
C19_OneRowPerBlock ==
    pc = "done" =>
        /\ output_csv.written
        /\ Len(output_csv.rows) = Len(rows)
        /\ ret.kind = "count"
        /\ ret.count = Len(output_csv.rows)

\* C20: when the merge raises (the identity table has no secondary-ID column)
\* the exception is caught, process returns normally, and the table written
\* holds the un-merged rows under the pre-join columns, one per parsed block.
C20_MergeFailure ==
    (pc = "done" /\ GivenTable.kind = "table" /\ ~HasColumn(GivenTable, "SPID")) =>
        /\ ret.kind = "count"
        /\ ret.count = Len(rows)
        /\ output_csv.written
        /\ output_csv.columns = BuildColumnNames(cfg)
        /\ output_csv.rows = rows

\* two students and a two-entry table without a secondary-ID column
C20_Witness ==
    /\ pc = "done"
    /\ GivenTable.columns = <<"NAME", "ID">>
    /\ Len(GivenTable.rows) = 2
    /\ doc = <<<<HeaderLineC, HeaderLineA>>>>
    /\ ret = [kind |-> "count", count |-> 2]
    /\ Len(output_csv.rows) = 2
    /\ Len(output_csv.columns) = 27

\* C21: a run of process leaves the identity table of the caller exactly as it
\* was supplied: at every point of the run every column of it, the secondary-ID
\* column included, holds the values that were passed in.
C21_MetadataReadOnly == metadata_df = GivenTable

(***************************************************************************)
(* Claims about process, checked under Spec                                *)
(***************************************************************************)
RECURSIVE Flatten(_)
\* the lines of a sequence of pages (or of blocks), in order
Flatten(seqs) == IF seqs = <<>> THEN <<>> ELSE Head(seqs) \o Flatten(Tail(seqs))

\* the line stream of the document
Stream == Flatten(doc)

\* positions of the boundary lines in the stream
BoundaryPositions == {i \in 1..Len(Stream) : Stream[i] \in BoundaryLines}

\* position of the n-th boundary line
NthBoundary(n) ==
    CHOOSE i \in BoundaryPositions : Cardinality({j \in BoundaryPositions : j <= i}) = n

\* C1: a stream with N boundary lines hands exactly N blocks to
\* parse_student_block, the n-th of them starting with the n-th boundary line;
\* the block open at the end of input is parsed too.
C1_BlockSegmentation ==
    /\ Len(parsed) <= Cardinality(BoundaryPositions)
    /\ \A n \in 1..Len(parsed) : parsed[n][1] = Stream[NthBoundary(n)]
    /\ pc = "done" => Len(parsed) = Cardinality(BoundaryPositions)

\* three boundary lines with nothing between them, the last one ending the input
C1_Witness ==
    /\ pc = "done"
    /\ Stream = <<HeaderLineA, HeaderLineB, HeaderLineA>>
    /\ parsed = <<<<HeaderLineA>>, <<HeaderLineB>>, <<HeaderLineA>>>>

\* the rows of the blocks whose parse returns a record, in block order
RECURSIVE RowsOf(_)
RowsOf(blocks) ==
    IF blocks = <<>> THEN <<>>
    ELSE LET data == ParseStudentBlock(cfg, Head(blocks))
         IN  (IF data.kind = "row" THEN <<data.row>> ELSE <<>>) \o RowsOf(Tail(blocks))

\* C2: the row list is exactly the rows of the blocks whose parse returned a
\* record, in block order; a block whose parse raises or returns nothing adds no
\* row, and every block after it is still parsed.
C2_FailureIsolation ==
    /\ rows = RowsOf(parsed)
    /\ pc = "done" =>
        /\ Len(parsed) = Cardinality(BoundaryPositions)
        /\ ret.count = Len(rows)
        /\ output_csv.rows = rows

\* a block whose parse raises, followed by a block that gives the only row
C2_Witness ==
    /\ pc = "done"
    /\ parsed = <<<<HeaderLineB, BadLine>>, <<HeaderLineA>>>>
    /\ ParseStudentBlock(cfg, parsed[1]).kind = "raise"
    /\ Len(rows) = 1
    /\ rows[1][1] = <<"1", "0", "0", "1">>
    /\ ret.count = 1

\* the stream from its first boundary line on
FromFirstBoundary ==
    IF BoundaryPositions = {} THEN <<>>
    ELSE SubSeq(Stream, NthBoundary(1), Len(Stream))

\* C3: every line from the first boundary line on belongs to exactly one block,
\* the one opened by the nearest preceding boundary line, in stream order, also
\* across pages and pages without text; lines before the first boundary line
\* belong to no block.
C3_BlockContent ==
    /\ \A n \in 1..Len(parsed) :
          \A k \in 2..Len(parsed[n]) : parsed[n][k] \notin BoundaryLines
    /\ pc = "done" => Flatten(parsed) = FromFirstBoundary

\* a line before the first boundary, then a block that continues after a page
\* without text
C3_Witness ==
    /\ pc = "done"
    /\ doc = <<<<NearLine, HeaderLineB>>, <<>>, <<BadLine>>>>
    /\ parsed = <<<<HeaderLineB, BadLine>>>>

(***************************************************************************)
(* The generator converter of src/utils/pdf_to_structured_csv.py.  Of a    *)
(* student record the model keeps the identity fields (SEAT NO, SPID,      *)
(* GENDER, NAME, ID, CAST) and the exception the scan for the final total  *)
(* can raise; the mark, grade and semester fields, which no step of the    *)
(* line loop reads, are left out.                                          *)
(***************************************************************************)
\* s.startswith(p)
StartsWith(s, p) == Len(s) >= Len(p) /\ SubSeq(s, 1, Len(p)) = p

\* p in s
Contains(s, p) == \E i \in 0..(Len(s) - Len(p)) : SubSeq(s, i + 1, i + Len(p)) = p

MinOf(a, b) == IF a <= b THEN a ELSE b

Least(S) == CHOOSE x \in S : \A y \in S : x <= y

\* re.match(r'^\d{4}\s+\d{10}', s)
IsStudentLine(s) ==
    /\ Len(s) >= 4
    /\ \A i \in 1..4 : s[i] \in Digits
    /\ RunLength(s, 5, Whitespace) >= 1
    /\ RunLength(s, 5 + RunLength(s, 5, Whitespace), Digits) >= 10

\* lines[i].strip(), i counted from 0 as in the code
LineAt(lns, i) == Strip(lns[i + 1])

\* range(index, min(index + 15, len(lines))) and range(student_line + 1,
\* min(student_line + 15, len(lines)))
LookAhead == 15

\* range(student_line + 1, min(student_line + 20, len(lines)))
NextLookAhead == 20

\* "and i > student_line + 3": a header this close to the student line is not
\* taken for the next student
MinBlockLines == 3

\* the student info line: matches the pattern and has at least three parts
StudentLineAt(lns, i) == IsStudentLine(LineAt(lns, i)) /\ Len(Split(LineAt(lns, i))) >= 3

\* the first loop of parse_student_data: the student line, or -1 for None
FindStudentLine(lns, idx) ==
    LET found == {i \in idx..(MinOf(idx + LookAhead, Len(lns)) - 1) : StudentLineAt(lns, i)}
    IN  IF found = {} THEN -1 ELSE Least(found)

BCA == <<"B", ".", "C", ".", "A">>

RECURSIVE NameParts(_, _)
\* name_parts: the parts from position j up to the course or the year token
NameParts(parts, j) ==
    IF j >= Len(parts) THEN <<>>
    ELSE IF \/ Contains(parts[j + 1], BCA)
            \/ (StartsWith(parts[j + 1], <<"2", "0", "2", "3">>) /\ Contains(parts[j + 1], <<"-">>))
         THEN <<>>
         ELSE <<parts[j + 1]>> \o NameParts(parts, j + 1)

\* student['CAST'] = 'General'; student['ID'] = ''
DefaultDetails == [id |-> StrCell(<<>>), cast |-> StrCell(<<"G", "e", "n", "e", "r", "a", "l">>)]

\* if student_details and SPID in student_details: details.get('id'), details.get('cast')
LookUpDetails(details, spid) ==
    IF spid \in DOMAIN details THEN details[spid] ELSE DefaultDetails

\* the identity fields read off the student line
Student(parts, details) ==
    [SEAT_NO |-> parts[1], SPID |-> parts[2], GENDER |-> parts[3],
     NAME |-> Join(NameParts(parts, 3), <<" ">>),
     ID |-> LookUpDetails(details, parts[2]).id,
     CAST |-> LookUpDetails(details, parts[2]).cast]

\* the second loop stops at the next student line that lies more than three
\* lines below this one, else at the end of its range
ScanStop(lns, sl) ==
    LET last == MinOf(sl + LookAhead, Len(lns))
        hits == {i \in (sl + 1)..(last - 1) : IsStudentLine(LineAt(lns, i)) /\ i > sl + MinBlockLines}
    IN  IF hits = {} THEN last ELSE Least(hits)

\* ext_line / int_line: the first line of the range that starts with the word
FirstLineWith(lns, sl, word) ==
    LET at == {i \in (sl + 1)..(ScanStop(lns, sl) - 1) : StartsWith(LineAt(lns, i), word)}
    IN  IF at = {} THEN <<>> ELSE LineAt(lns, Least(at))

RECURSIVE ScanTotalFrom(_, _)
\* for i in range(10, min(20, len(parts))): if parts[i].isdigit() and
\* 100 <= int(parts[i]) <= 999: ...; break -- int() raises on a digit-like
\* character it does not accept
ScanTotalFrom(parts, i) ==
    IF i >= MinOf(20, Len(parts)) THEN "none"
    ELSE IF ~IsDigit(parts[i + 1]) THEN ScanTotalFrom(parts, i + 1)
    ELSE IF IntOf(parts[i + 1]).exc # "none" THEN IntOf(parts[i + 1]).exc
    ELSE IF IntOf(parts[i + 1]).val >= 100 /\ IntOf(parts[i + 1]).val <= 999 THEN "none"
    ELSE ScanTotalFrom(parts, i + 1)

\* if len(parts) >= 15: if len(parts) > 15 and parts[15].isdigit(): ... else: scan
FinalTotalScan(parts) ==
    IF Len(parts) < 15 THEN "none"
    ELSE IF Len(parts) > 15 /\ IsDigit(parts[16]) THEN "none"
    ELSE ScanTotalFrom(parts, 10)

\* the exception parse_student_data lets out while it reads the EXT and the
\* INT line, "none" when there is none
MarksExc(lns, sl) ==
    LET ext_line == FirstLineWith(lns, sl, <<"E", "X", "T">>)
        int_line == FirstLineWith(lns, sl, <<"I", "N", "T">>)
    IN  IF ext_line # <<>> /\ FinalTotalScan(Split(ext_line)) # "none"
        THEN FinalTotalScan(Split(ext_line))
        ELSE IF int_line # <<>> THEN FinalTotalScan(Split(int_line)) ELSE "none"

\* next_index = student_line + 1; for i in range(...): the next student line
\* more than three lines below, else len(lines) once the last line is reached
NextIndex(lns, sl) ==
    LET last == MinOf(sl + NextLookAhead, Len(lns))
        hits == {i \in (sl + 1)..(last - 1) : IsStudentLine(LineAt(lns, i)) /\ i > sl + MinBlockLines}
    IN  IF hits # {} THEN Least(hits)
        ELSE IF Len(lns) - 1 \in (sl + 1)..(last - 1) THEN Len(lns)
        ELSE sl + 1

NoStudent == [SEAT_NO |-> None]

NotFoundSameIndex(idx) ==
    [exc |-> "none", student |-> NoStudent, student_line |-> -1, next_index |-> idx]

\* if student_line is None: return None, index + 1
NotFound(idx) ==
    [exc |-> "none", student |-> NoStudent, student_line |-> -1, next_index |-> idx + 1]

\* the rest of parse_student_data, once the student line is known
ParseFrom(lns, sl, details) ==
    IF MarksExc(lns, sl) # "none"
    THEN [exc |-> MarksExc(lns, sl), student |-> NoStudent, student_line |-> sl,
          next_index |-> 0]
    ELSE [exc |-> "none", student |-> Student(Split(LineAt(lns, sl)), details),
          student_line |-> sl, next_index |-> NextIndex(lns, sl)]

\* parse_student_data(lines, index, student_details)
ParseStudentData(lns, idx, details) ==
    IF FindStudentLine(lns, idx) = -1 THEN NotFound(idx)
    ELSE ParseFrom(lns, FindStudentLine(lns, idx), details)

\* df.columns = [col.lower() for col in df.columns]
LowerName(c) ==
    CASE c = "SPID" -> "spid" [] c = "ID" -> "id" [] c = "CAST" -> "cast" [] OTHER -> c

LowerColumns(table) == [n \in 1..Len(table.columns) |-> LowerName(table.columns[n])]

\* student_details[key] = value: a later entry replaces an earlier one
Put(d, key, value) == [k \in DOMAIN d \cup {key} |-> IF k = key THEN value ELSE d[k]]

RECURSIVE DetailsFrom(_, _, _)
\* for index, row in df.iterrows():
\*     student_details[str(row['spid'])] = {'id': row['id'], 'cast': row['cast']}
DetailsFrom(rws, columns, d) ==
    IF rws = <<>> THEN d
    ELSE DetailsFrom(Tail(rws), columns,
                     Put(d, AsStr(Head(rws)[ColumnIndex(columns, "spid")]),
                         [id |-> Head(rws)[ColumnIndex(columns, "id")],
                          cast |-> Head(rws)[ColumnIndex(columns, "cast")]]))

\* the try block that reads the student details file: the exception it ends
\* with and the dictionary it leaves
ReadStudentDetails(file) ==
    IF file.kind = "missing" THEN [exc |-> "FileNotFoundError", details |-> <<>>]
    ELSE IF file.kind = "unsupported" THEN [exc |-> "ValueError", details |-> <<>>]
    ELSE IF file.rows = <<>> THEN [exc |-> "none", details |-> <<>>]
    ELSE IF \E c \in {"spid", "id", "cast"} :
               \A n \in 1..Len(file.columns) : LowerColumns(file)[n] # c
         THEN [exc |-> "KeyError", details |-> <<>>]
         ELSE [exc |-> "none", details |-> DetailsFrom(file.rows, LowerColumns(file), <<>>)]

\* one progress message of the generator
Message(text, n, of) == [text |-> text, n |-> n, of |-> of]

\* the messages the reading of the details file yields
DetailsMessages(read) ==
    IF read.exc = "FileNotFoundError" THEN <<Message("Student details Excel file not found", 0, 0)>>
    ELSE IF read.exc # "none" THEN <<Message("Error reading student details file", 0, 0)>>
    ELSE <<>>

\* the identity fields of one student as csv.writer writes them
CsvRow(student) ==
    [SEAT_NO |-> student.SEAT_NO, SPID |-> student.SPID, ID |-> AsStr(student.ID),
     GENDER |-> student.GENDER, NAME |-> student.NAME, CAST |-> AsStr(student.CAST)]

(***************************************************************************)
(* SpecExtract: one run of extract_pdf_to_structured_csv                   *)
(***************************************************************************)
MaxExtractPages == 2

MaxGapLines == 19

MaxDetailRows == 2

\* a student header whose name is followed by the course token
HeaderLineD == <<"1", "0", "0", "4", " ", "1", "2", "3", "4", "5", "6", "7", "8", "9", "3",
                 " ", "F", " ", "N", " ", "B", ".", "C", ".", "A", ".">>

\* a line of the header pattern with two parts only
HeaderLineTwo == <<"1", "0", "0", "3", " ", "1", "2", "3", "4", "5", "6", "7", "8", "9", "2">>

\* an EXT line of 15 parts whose part 10 passes isdigit() and is refused by int()
BadExtLine ==
    <<"E", "X", "T">> \o Join([i \in 1..9 |-> <<" ", "1">>], <<>>) \o <<" ", "sup2">>
        \o Join([i \in 1..4 |-> <<" ", "1">>], <<>>)

BlankLine == <<>>

FirstLines == {HeaderLineA, HeaderLineD, HeaderLineTwo, BadExtLine, BlankLine}

\* blank lines below the first line of a page: fewer than, exactly and more than
\* the three lines a block must have, and more than the look-ahead
GapLengths == {0, 2, 3, MaxGapLines}

ExtractPages == {<<first>> \o [i \in 1..gap |-> BlankLine] : first \in FirstLines, gap \in GapLengths}

ExtractDocs == UNION {[1..n -> ExtractPages] : n \in 0..MaxExtractPages}

\* the documents read together with a details file: none, one and two students
DetailDocs ==
    {<<>>, <<<<HeaderLineA, BlankLine, BlankLine, BlankLine>>>>,
     <<<<HeaderLineA, BlankLine, BlankLine, BlankLine>>, <<HeaderLineD>>>>}

\* rows of a details file: the ID of HeaderLineA as an int, as a str with
\* blanks around it, and as a str
DetailEntries ==
    {[SPID |-> IntCell(1234567890), ID |-> StrCell(<<"S", "1">>), CAST |-> StrCell(<<"O", "B", "C">>)],
     [SPID |-> StrCell(<<" ", "1", "2", "3", "4", "5", "6", "7", "8", "9", "0", " ">>),
      ID |-> IntCell(2), CAST |-> NaN],
     [SPID |-> StrCell(<<"1", "2", "3", "4", "5", "6", "7", "8", "9", "0">>),
      ID |-> StrCell(<<"S", "3">>), CAST |-> StrCell(<<"S", "C">>)]}

DetailLayouts == {<<"SPID", "ID", "CAST">>, <<"cast", "spid", "id">>, <<"SPID", "ID">>}

\* what student_detail_path can name: no file, a file of another format, a table
DetailFiles ==
    {[kind |-> "missing"], [kind |-> "unsupported"]} \cup
    {[kind |-> "table", columns |-> layout,
      rows |-> [j \in 1..Len(entries) |->
                   [n \in 1..Len(layout) |->
                       IF LowerName(layout[n]) = "spid" THEN entries[j].SPID
                       ELSE IF LowerName(layout[n]) = "id" THEN entries[j].ID
                       ELSE entries[j].CAST]]] :
        layout \in DetailLayouts,
        entries \in UNION {[1..n -> DetailEntries] : n \in 0..MaxDetailRows}}

ExtractInputs ==
    {[kind |-> "extract", details |-> [kind |-> "missing"], pdf |-> d] : d \in ExtractDocs}
      \cup {[kind |-> "extract", details |-> f, pdf |-> d] : f \in DetailFiles, d \in DetailDocs}

InitExtract ==
    /\ cfg = [total_subjects |-> 0, practical_subjects |-> 0]
    /\ arg \in ExtractInputs
    /\ doc = arg.pdf
    /\ pc = "details"
    /\ page_idx = 0
    /\ lines = <<>>
    /\ current_block = <<>>
    /\ rows = <<>>
    /\ parsed = <<>>
    /\ progress = <<>>
    /\ events = <<>>
    /\ ExtractIdle
    /\ session = NoSession
    /\ output_csv = [written |-> FALSE]
    /\ metadata_df = NoMetadata
    /\ fn = "extract_pdf_to_structured_csv"
    /\ ret = NotCalled

\* the variables of process that the generator does not have
ProcessOnlyVars == <<cfg, lines, current_block, rows, parsed, metadata_df, session, fn, arg, doc>>

\* the try block on the details file: a failure yields one message and the run
\* goes on with an empty dictionary
ReadDetails ==
    /\ pc = "details"
    /\ student_details' = ReadStudentDetails(arg.details).details
    /\ progress' = progress \o DetailsMessages(ReadStudentDetails(arg.details))
    /\ pc' = "open"
    /\ UNCHANGED <<ProcessOnlyVars, page_idx, events, output_csv, ret, all_lines, index,
                   all_students, calls>>

\* with pdfplumber.open(pdf_path) as pdf: yield "Total pages: ..."
OpenPdf ==
    /\ pc = "open"
    /\ progress' = Append(progress, Message("Total pages", Len(doc), 0))
    /\ pc' = IF Len(doc) = 0 THEN "scan" ELSE "pages"
    /\ UNCHANGED <<ProcessOnlyVars, page_idx, events, output_csv, ret, ExtractVars>>

\* for page_num, page in enumerate(pdf.pages, 1): yield "Processing page ..."
YieldPage ==
    /\ pc = "pages"
    /\ progress' = Append(progress, Message("Processing page", page_idx + 1, Len(doc)))
    /\ events' = Append(events, [kind |-> "progress", page |-> page_idx + 1])
    /\ pc' = "extract"
    /\ UNCHANGED <<ProcessOnlyVars, page_idx, output_csv, ret, ExtractVars>>

\* text = page.extract_text(); if text: all_lines.extend(text.split('\n'))
ExtractPageText ==
    /\ pc = "extract"
    /\ events' = Append(events, [kind |-> "extract", page |-> page_idx + 1])
    /\ all_lines' = IF ExtractText(doc[page_idx + 1]) = <<>> THEN all_lines
                    ELSE all_lines \o SplitOn(ExtractText(doc[page_idx + 1]), "\n")
    /\ page_idx' = page_idx + 1
    /\ pc' = IF page_idx + 1 = Len(doc) THEN "scan" ELSE "pages"
    /\ UNCHANGED <<ProcessOnlyVars, progress, output_csv, ret, student_details, index,
                   all_students, calls>>

\* one iteration of "while index < len(all_lines)"; an exception of
\* parse_student_data ends the run with one message and no file
ScanStepWith(data) ==
    IF data.exc # "none"
    THEN /\ progress' = Append(progress, Message("Error extracting PDF", 0, 0))
         /\ pc' = "done"
         /\ ret' = [kind |-> "exhausted"]
         /\ calls' = Append(calls, [index |-> index, returned |-> FALSE,
                                     student_line |-> data.student_line, next_index |-> 0])
         /\ UNCHANGED <<index, all_students>>
    ELSE /\ all_students' = IF data.student # NoStudent THEN Append(all_students, data.student)
                            ELSE all_students
         /\ index' = IF data.next_index <= 0 THEN data.next_index + 1 ELSE data.next_index
         /\ calls' = Append(calls, [index |-> index, returned |-> TRUE,
                                     student_line |-> data.student_line,
                                     next_index |-> data.next_index])
         /\ UNCHANGED <<progress, pc, ret>>

ScanStep ==
    /\ pc = "scan"
    /\ index < Len(all_lines)
    /\ ScanStepWith(ParseStudentData(all_lines, index, student_details))
    /\ UNCHANGED <<ProcessOnlyVars, page_idx, events, output_csv, student_details, all_lines>>

\* if all_students: write the two header rows and one row per student, yield
\* "Successfully extracted ..."; else: yield "No student data extracted from PDF"
WriteCsv ==
    /\ pc = "scan"
    /\ index >= Len(all_lines)
    /\ IF all_students # <<>>
       THEN /\ output_csv' = [written |-> TRUE, header_rows |-> 2,
                               rows |-> [i \in 1..Len(all_students) |-> CsvRow(all_students[i])]]
            /\ progress' = Append(progress, Message("Successfully extracted", Len(all_students), 0))
       ELSE /\ output_csv' = output_csv
            /\ progress' = Append(progress, Message("No student data extracted from PDF", 0, 0))
    /\ pc' = "done"
    /\ ret' = [kind |-> "exhausted"]
    /\ UNCHANGED <<ProcessOnlyVars, page_idx, events, ExtractVars>>

NextExtract == ReadDetails \/ OpenPdf \/ YieldPage \/ ExtractPageText \/ ScanStep \/ WriteCsv

SpecExtract == InitExtract /\ [][NextExtract]_vars

(***************************************************************************)
(* Claims about the two converters, checked under SpecExtract              *)
(***************************************************************************)
\* the last message the generator has yielded
LastMessage == progress[Len(progress)].text

\* the run ended without the message of the except clause around the PDF work
EndedNormally ==
    /\ fn = "extract_pdf_to_structured_csv"
    /\ pc = "done"
    /\ LastMessage # "Error extracting PDF"

\* the records of the file the generator wrote, none when it wrote no file
Records == IF output_csv.written THEN output_csv.rows ELSE <<>>

\* C22: when the student-details file is missing or cannot be read, the
\* generator yields a warning message first, goes on through every page, and
\* every record it writes has a blank ID and a blank CAST.
C22_MissingMetadata ==
    (fn = "extract_pdf_to_structured_csv" /\ pc = "done"
        /\ ReadStudentDetails(arg.details).exc # "none") =>
        /\ progress[1].text \in {"Student details Excel file not found",
                                 "Error reading student details file"}
        /\ page_idx = Len(doc)
        /\ \A k \in 1..Len(Records) : Records[k].ID = <<>> /\ Records[k].CAST = <<>>

\* C23: a conversion that recognizes no student ends normally with an empty
\* table written (no data rows) and a status that reports zero records, in
\* process and in the generator alike.
C23_ZeroBlocks ==
    /\ (fn = "process" /\ pc = "done" /\ rows = <<>>) =>
          /\ ret = [kind |-> "count", count |-> 0]
          /\ output_csv.written
          /\ output_csv.rows = <<>>
    /\ (EndedNormally /\ all_students = <<>>) =>
          /\ LastMessage = "No student data extracted from PDF"
          /\ output_csv.written
          /\ output_csv.rows = <<>>

\* the page-progress events, in the order they were emitted
ProgressEvents == SelectSeq(events, LAMBDA e : e.kind = "progress")

\* the text of page k was extracted before event i
ExtractedBefore(k, i) == \E j \in 1..(i - 1) : events[j] = [kind |-> "extract", page |-> k]

\* C24: one page-progress event per page, in the order 1, 2, ..., n; the event
\* for page k comes after the text of page k was extracted and before the text
\* of page k+1 is extracted, for pages without text too, for the callback of
\* process and for the messages of the generator.
C24_ProgressOrdering ==
    /\ \A n \in 1..Len(ProgressEvents) : ProgressEvents[n].page = n
    /\ \A i \in 1..Len(events) :
          events[i].kind = "progress" =>
              /\ ExtractedBefore(events[i].page, i)
              /\ ~ExtractedBefore(events[i].page + 1, i)
    /\ pc = "done" => Len(ProgressEvents) = Len(doc)

\* C27: every call parse_student_data(lines, index, ...) that returns gives a
\* next_index greater than index, with or without a student found, so the loop
\* visits increasing indexes and makes at most len(lines) iterations.
C27_ScanTerminates ==
    /\ \A k \in 1..Len(calls) : calls[k].returned => calls[k].next_index > calls[k].index
    /\ \A k \in 1..(Len(calls) - 1) : calls[k + 1].index > calls[k].index
    /\ Len(calls) <= Len(all_lines)
    /\ (pc = "scan" /\ calls # <<>>) => index = calls[Len(calls)].next_index

\* a student on the first line, 19 blank lines, a student on the last line: the
\* first call steps one line on, five calls find no student, the seventh finds
\* the second student and returns len(lines)
C27_Witness ==
    /\ pc = "done"
    /\ Len(all_lines) = 21
    /\ Len(calls) = 7
    /\ calls[1] = [index |-> 0, returned |-> TRUE, student_line |-> 0, next_index |-> 1]
    /\ calls[2] = [index |-> 1, returned |-> TRUE, student_line |-> -1, next_index |-> 2]
    /\ calls[7] = [index |-> 6, returned |-> TRUE, student_line |-> 20, next_index |-> 21]
    /\ Len(all_students) = 2

\* the lines (counted from 0) that match the student-header pattern and have at
\* least three parts
HeaderPositions == {i \in 0..(Len(all_lines) - 1) : StudentLineAt(all_lines, i)}

NthHeader(n) == CHOOSE i \in HeaderPositions : Cardinality({j \in HeaderPositions : j <= i}) = n

\* C28: every line that matches the student-header pattern and has at least
\* three parts gives exactly one record of the output, in line order, however
\* few lines lie between two header lines and wherever the document ends.
C28_StudentCoverage ==
    EndedNormally =>
        /\ Len(Records) = Cardinality(HeaderPositions)
        /\ \A n \in 1..Len(Records) :
              /\ Records[n].SEAT_NO = Split(LineAt(all_lines, NthHeader(n)))[1]
              /\ Records[n].SPID = Split(LineAt(all_lines, NthHeader(n)))[2]

(***************************************************************************)
(* The generator as a function of its inputs: the messages a consumer      *)
(* receives from one run                                                   *)
(***************************************************************************)
RECURSIVE AllLinesOf(_)
\* all_lines after the page loop
AllLinesOf(pdf) ==
    IF pdf = <<>> THEN <<>>
    ELSE (IF ExtractText(Head(pdf)) = <<>> THEN <<>> ELSE SplitOn(ExtractText(Head(pdf)), "\n"))
             \o AllLinesOf(Tail(pdf))

\* index after one call of parse_student_data
Advance(data) == IF data.next_index <= 0 THEN data.next_index + 1 ELSE data.next_index

ScanOn(data, students) ==
    IF data.student # NoStudent THEN Append(students, data.student) ELSE students

RECURSIVE ScanAll(_, _, _, _)
\* the while loop over all_lines: the students found, or the exception
ScanAll(lns, idx, details, students) ==
    IF idx >= Len(lns) THEN [exc |-> "none", students |-> students]
    ELSE IF ParseStudentData(lns, idx, details).exc # "none"
         THEN [exc |-> ParseStudentData(lns, idx, details).exc, students |-> students]
         ELSE ScanAll(lns, Advance(ParseStudentData(lns, idx, details)), details,
                      ScanOn(ParseStudentData(lns, idx, details), students))

\* the message that ends a run
FinalMessage(scan) ==
    IF scan.exc # "none" THEN Message("Error extracting PDF", 0, 0)
    ELSE IF scan.students # <<>> THEN Message("Successfully extracted", Len(scan.students), 0)
    ELSE Message("No student data extracted from PDF", 0, 0)

\* list(extract_pdf_to_structured_csv(pdf_path, student_detail_path, csv_path))
ExtractMessages(file, pdf) ==
    DetailsMessages(ReadStudentDetails(file))
        \o <<Message("Total pages", Len(pdf), 0)>>
        \o [k \in 1..Len(pdf) |-> Message("Processing page", k, Len(pdf))]
        \o <<FinalMessage(ScanAll(AllLinesOf(pdf), 0, ReadStudentDetails(file).details, <<>>))>>

(***************************************************************************)
(* SpecWeb: the requests of one client session to the routes of src/app.py *)
(* that keep entries in the session.  A request is one step: it reads the  *)
(* session cookie it came with and leaves the cookie of its response.  The *)
(* tables behind /upload, /load_data and /filter are not part of this      *)
(* specification (see SpecFilter); a stored file is taken to exist.        *)
(***************************************************************************)
\* session values: an int, a list of names, a path, None
IntVal(n) == [t |-> "int", n |-> n, names |-> <<>>]

ListVal(names) == [t |-> "list", n |-> 0, names |-> names]

\* a path made by generate_filename for upload n; the time stamp is left out
PathVal(kind, n) == [t |-> "str", n |-> n, names |-> <<kind>>]

NoneVal == [t |-> "None", n |-> 0, names |-> <<>>]

\* no value was read or passed
NotPassed == [t |-> "nothing", n |-> 0, names |-> <<>>]

\* session.get(key, default)
Get(s, key, default) == IF key \in DOMAIN s THEN s[key] ELSE default

UpperLetters ==
    <<"A", "B", "C", "D", "E", "F", "G", "H", "I", "J", "K", "L", "M", "N", "O", "P", "Q", "R",
      "S", "T", "U", "V", "W", "X", "Y", "Z">>

LowerLetters ==
    <<"a", "b", "c", "d", "e", "f", "g", "h", "i", "j", "k", "l", "m", "n", "o", "p", "q", "r",
      "s", "t", "u", "v", "w", "x", "y", "z">>

\* str.lower() on one character
LowerChar(c) ==
    IF \E i \in DOMAIN UpperLetters : UpperLetters[i] = c
    THEN LowerLetters[CHOOSE i \in DOMAIN UpperLetters : UpperLetters[i] = c]
    ELSE c

\* str.lower()
Lower(s) == [i \in 1..Len(s) |-> LowerChar(s[i])]

\* s.endswith(p)
EndsWith(s, p) == Len(s) >= Len(p) /\ SubSeq(s, Len(s) - Len(p) + 1, Len(s)) = p

\* filename.rsplit('.', 1): one part without a dot, else the name and the extension
RSplitDot(name) ==
    LET dots == {i \in 1..Len(name) : name[i] = "."}
    IN  IF dots = {} THEN <<name>>
        ELSE LET last == CHOOSE i \in dots : \A j \in dots : j <= i
             IN  <<SubSeq(name, 1, last - 1), SubSeq(name, last + 1, Len(name))>>

DetailExtensions == {<<"c", "s", "v">>, <<"x", "l", "s", "x">>, <<"x", "l", "s">>}

\* ALLOWED_EXTENSIONS of config.py
AllowedExtensions == {<<"c", "s", "v">>, <<"p", "d", "f">>}

\* allowed_file(filename)
AllowedFile(name) == Contains(name, <<".">>) /\ Lower(RSplitDot(name)[2]) \in AllowedExtensions

\* a form field or a file that the request does not carry
Absent == <<"absent">>

\* int(request.form.get(field, default))
FormInt(field, default) ==
    IF field = Absent THEN [exc |-> "none", val |-> default] ELSE IntOf(field)

\* def extract_pdf_to_structured_csv(pdf_path, student_detail_path, csv_path)
ExtractParameters == {"pdf_path", "student_detail_path", "csv_path"}

\* binding the arguments of a call: a keyword that names no parameter raises
\* TypeError before the body of the function (here: the generator) starts
BindCall(parameters, keywords) ==
    IF keywords \subseteq parameters THEN "none" ELSE "TypeError"

\* StudentMarksProcessor.__init__ on the three subject arguments: the exception
\* it raises ("s.lower() for s in (practical_subjects or [])" over an int)
ProcessorInit(selected, practical, theory) ==
    IF \/ (practical.t = "int" /\ practical.n # 0)
       \/ (theory.t = "int" /\ theory.n # 0)
       \/ selected.t = "int"
    THEN "TypeError" ELSE "none"

\* the result of one request
Response(route, status, passed, evs, call) ==
    [route |-> route, status |-> status, passed |-> passed, events |-> evs, call |-> call]

NoCall == [ran |-> FALSE]

\* the files a client uploads for conversion, by number: the PDF pages and the
\* student details
UploadedPdfs == <<<<<<HeaderLineA>>>>, <<>>>>

UploadedDetails == <<[kind |-> "missing"], [kind |-> "unsupported"]>>

PdfNames == {Absent, <<>>, <<"R", ".", "P", "D", "F">>, <<"r", ".", "t", "x", "t">>}

DetailNames == {<<"d", ".", "c", "s", "v">>, <<"d", ".", "X", "L", "S", "X">>, <<"d">>}

CountFields == {Absent, <<"2">>, <<"x">>}

ConversionForms ==
    [pdf_file : PdfNames, student_detail_file : DetailNames, total_subjects : CountFields,
     practical_subjects : CountFields, upload : DOMAIN UploadedPdfs]

SubjectLists == {<<>>, <<"sub1_total">>}

\* the JSON body of /load_data
LoadBodies ==
    [subjects : SubjectLists \cup {Absent}, practical_subjects : SubjectLists,
     theory_subjects : SubjectLists]

UploadNames == {Absent, <<"m", ".", "c", "s", "v">>, <<"m", ".", "t", "x", "t">>}

\* the file of /upload: its name, and whether read_student_marks and
\* validate_marks_data accept its content
UploadForms == [name : UploadNames, valid : BOOLEAN]

FilterBodies == {[filter_type |-> t] : t \in {"overall_pass", "statistics", "other"}}

InitWeb ==
    /\ ProcessIdle
    /\ fn = "app"
    /\ arg = [kind |-> "requests"]
    /\ ret = Response("none", 0, NotPassed, <<>>, NoCall)

\* session['pdf_filename'] = ...; session['detail_filename'] = ...;
\* session['converted_file'] = ...
StorePaths(s, form) ==
    Put(Put(Put(s, "pdf_filename", PathVal("uploaded.pdf", form.upload)),
            "detail_filename",
            PathVal(Lower(RSplitDot(form.student_detail_file)[2]), form.upload)),
        "converted_file", PathVal("converted.csv", form.upload))

\* lines 138-144 of initiate_conversion on the session that holds the paths:
\* an int() that raises leaves what was stored before it
StoreCounts(s, form) ==
    IF FormInt(form.total_subjects, 6).exc # "none" THEN [status |-> 500, session |-> s]
    ELSE IF FormInt(form.practical_subjects, 4).exc # "none"
         THEN [status |-> 500,
               session |-> Put(s, "total_subjects", IntVal(FormInt(form.total_subjects, 6).val))]
         ELSE [status |-> 200,
               session |-> Put(Put(s, "total_subjects",
                                   IntVal(FormInt(form.total_subjects, 6).val)),
                               "practical_subjects",
                               IntVal(FormInt(form.practical_subjects, 4).val))]

\* the checks of initiate_conversion that answer 400
FormRefused(form) ==
    \/ form.pdf_file = Absent
    \/ form.pdf_file = <<>>
    \/ ~EndsWith(Lower(form.pdf_file), <<".", "p", "d", "f">>)
    \/ Len(RSplitDot(form.student_detail_file)) < 2
    \/ Lower(RSplitDot(form.student_detail_file)[2]) \notin DetailExtensions

\* POST /initiate-conversion
InitiateConversion ==
    /\ fn = "app"
    /\ \E form \in ConversionForms :
          IF FormRefused(form)
          THEN /\ session' = session
               /\ ret' = Response("initiate-conversion", 400, NotPassed, <<>>, NoCall)
          ELSE /\ session' = StoreCounts(StorePaths(session, form), form).session
               /\ ret' = Response("initiate-conversion",
                                  StoreCounts(StorePaths(session, form), form).status,
                                  NotPassed, <<>>, NoCall)
    /\ UNCHANGED <<cfg, doc, pc, page_idx, lines, current_block, rows, parsed, progress,
                   output_csv, metadata_df, events, ExtractVars, fn, arg>>

\* generate() of conversion_stream: the counts read from the session, the call
\* of the generator with them as keywords, one event per message and 'done'
\* at the end, or one error event for an exception
Generate(s) ==
    IF BindCall(ExtractParameters,
                {"pdf_path", "student_detail_path", "csv_path", "total_subjects",
                 "practical_subjects"}) # "none"
    THEN Response("conversion-stream", 200, Get(s, "practical_subjects", IntVal(4)),
                  <<Message("Error", 0, 0)>>, NoCall)
    ELSE Response("conversion-stream", 200, Get(s, "practical_subjects", IntVal(4)),
                  ExtractMessages(UploadedDetails[s["detail_filename"].n],
                                  UploadedPdfs[s["pdf_filename"].n])
                      \o <<Message("done", 0, 0)>>,
                  [ran |-> TRUE, pdf_path |-> s["pdf_filename"],
                   student_detail_path |-> s["detail_filename"],
                   csv_path |-> s["converted_file"],
                   total_subjects |-> Get(s, "total_subjects", IntVal(6)),
                   practical_subjects |-> Get(s, "practical_subjects", IntVal(4))])

\* GET /conversion-stream
ConversionStream ==
    /\ fn = "app"
    /\ ret' = IF {"pdf_filename", "detail_filename", "converted_file"} \subseteq DOMAIN session
              THEN Generate(session)
              ELSE Response("conversion-stream", 200, NotPassed,
                            <<Message("Error: File paths not found in session", 0, 0)>>, NoCall)
    /\ UNCHANGED <<ProcessVars, fn, arg>>

\* POST /upload: a file that is refused answers 400; else its path is stored
\* and a processor is made without subject arguments
UploadFile ==
    /\ fn = "app"
    /\ \E form \in UploadForms :
          IF form.name = Absent \/ form.name = <<>> \/ ~AllowedFile(form.name) \/ ~form.valid
          THEN /\ session' = session
               /\ ret' = Response("upload", 400, NotPassed, <<>>, NoCall)
          ELSE /\ session' = Put(Put(session, "uploaded_file", PathVal("uploads", 0)),
                                 "filename", PathVal("name", 0))
               /\ ret' = Response("upload", 200, NoneVal, <<>>, NoCall)
    /\ UNCHANGED <<cfg, doc, pc, page_idx, lines, current_block, rows, parsed, progress,
                   output_csv, metadata_df, events, ExtractVars, fn, arg>>

\* req_json.get('subjects', [])
BodyList(field) == IF field = Absent THEN <<>> ELSE field

\* POST /load_data
LoadData ==
    /\ fn = "app"
    /\ \E body \in LoadBodies :
          IF "uploaded_file" \notin DOMAIN session
          THEN /\ session' = session
               /\ ret' = Response("load_data", 400, NotPassed, <<>>, NoCall)
          ELSE /\ session' = Put(Put(Put(session, "selected_subjects",
                                         ListVal(BodyList(body.subjects))),
                                     "practical_subjects", ListVal(body.practical_subjects)),
                                 "theory_subjects", ListVal(body.theory_subjects))
               /\ ret' = Response("load_data", 200, ListVal(body.practical_subjects), <<>>, NoCall)
    /\ UNCHANGED <<cfg, doc, pc, page_idx, lines, current_block, rows, parsed, progress,
                   output_csv, metadata_df, events, ExtractVars, fn, arg>>

\* the part of filter_data after the processor is made
ApplyFilter(s, body, passed) ==
    IF body.filter_type = "other"
    THEN [session |-> s, response |-> Response("filter", 400, passed, <<>>, NoCall)]
    ELSE IF body.filter_type = "statistics"
    THEN [session |-> s, response |-> Response("filter", 200, passed, <<>>, NoCall)]
    ELSE [session |-> Put(Put(Put(s, "filtered_file", PathVal(body.filter_type, 0)),
                              "filter_type", PathVal(body.filter_type, 0)),
                          "filter_description", PathVal(body.filter_type, 0)),
          response |-> Response("filter", 200, passed, <<>>, NoCall)]

\* POST /filter: the subject entries of the session go to StudentMarksProcessor;
\* an exception of the handler answers 500
FilterData ==
    /\ fn = "app"
    /\ \E body \in FilterBodies :
          IF "uploaded_file" \notin DOMAIN session
          THEN /\ session' = session
               /\ ret' = Response("filter", 400, NotPassed, <<>>, NoCall)
          ELSE IF ProcessorInit(Get(session, "selected_subjects", NoneVal),
                                Get(session, "practical_subjects", NoneVal),
                                Get(session, "theory_subjects", NoneVal)) # "none"
          THEN /\ session' = session
               /\ ret' = Response("filter", 500, Get(session, "practical_subjects", NoneVal),
                                  <<>>, NoCall)
          ELSE /\ session' = ApplyFilter(session, body,
                                         Get(session, "practical_subjects", NoneVal)).session
               /\ ret' = ApplyFilter(session, body,
                                     Get(session, "practical_subjects", NoneVal)).response
    /\ UNCHANGED <<cfg, doc, pc, page_idx, lines, current_block, rows, parsed, progress,
                   output_csv, metadata_df, events, ExtractVars, fn, arg>>

NextWeb == InitiateConversion \/ ConversionStream \/ UploadFile \/ LoadData \/ FilterData

SpecWeb == InitWeb /\ [][NextWeb]_vars

(***************************************************************************)
(* Claims about the web routes, checked under SpecWeb                      *)
(***************************************************************************)
\* the session holds what a successful /initiate-conversion stores
ConversionStored ==
    /\ {"pdf_filename", "detail_filename", "converted_file", "total_subjects",
        "practical_subjects"} \subseteq DOMAIN session
    /\ session["practical_subjects"].t = "int"

\* C25: after a successful /initiate-conversion, /conversion-stream runs the
\* extraction with the stored paths and subject counts, sends every message of
\* the generator as one event in order and ends with the event 'done'; without
\* the three stored paths it sends a single error event and runs no extraction.
C25_ConversionStream ==
    ret.route = "conversion-stream" =>
        /\ ~({"pdf_filename", "detail_filename", "converted_file"} \subseteq DOMAIN session) =>
              /\ ~ret.call.ran
              /\ ret.events = <<Message("Error: File paths not found in session", 0, 0)>>
        /\ ConversionStored =>
              /\ ret.call.ran
              /\ ret.events[Len(ret.events)] = Message("done", 0, 0)
              /\ ret.call.pdf_path = session["pdf_filename"]
              /\ ret.call.student_detail_path = session["detail_filename"]
              /\ ret.call.csv_path = session["converted_file"]
              /\ ret.call.total_subjects = session["total_subjects"]
              /\ ret.call.practical_subjects = session["practical_subjects"]
              /\ ret.events = ExtractMessages(UploadedDetails[session["detail_filename"].n],
                                              UploadedPdfs[session["pdf_filename"].n])
                                  \o <<Message("done", 0, 0)>>

\* C29: in one session, whatever the order of the requests, the
\* practical_subjects value that /filter passes to StudentMarksProcessor is a
\* list of names or absent, and the one /conversion-stream reads is an int.
C29_SessionEntriesSeparate ==
    /\ (ret.route = "filter" /\ ret.passed # NotPassed) => ret.passed.t \in {"list", "None"}
    /\ (ret.route = "conversion-stream" /\ ret.passed # NotPassed) => ret.passed.t = "int"

(***************************************************************************)
(* StudentMarksProcessor of src/utils/data_processor.py: the pass and fail *)
(* filters over a table of student marks.  Column names and cell texts are *)
(* sequences of characters.                                                *)
(***************************************************************************)
\* the characters of the tables here, in code point order
CodePoints == <<" ", ",", "-", ".", "0", "1", "2", "3", "4", "5", "6", "7", "8", "9">> \o UpperLetters \o <<"_">> \o LowerLetters

Ord(c) == CHOOSE i \in DOMAIN CodePoints : CodePoints[i] = c

\* str.upper() on one character
UpChar(c) ==
    IF \E i \in DOMAIN LowerLetters : LowerLetters[i] = c
    THEN UpperLetters[CHOOSE i \in DOMAIN LowerLetters : LowerLetters[i] = c]
    ELSE c

\* str.upper()
StrUpper(s) == [i \in 1..Len(s) |-> UpChar(s[i])]

RECURSIVE StrLess(_, _)
\* a < b for two str
StrLess(a, b) ==
    IF a = <<>> THEN b # <<>>
    ELSE IF b = <<>> THEN FALSE
    ELSE IF a[1] = b[1] THEN StrLess(Tail(a), Tail(b))
    ELSE Ord(a[1]) < Ord(b[1])

RECURSIVE Sorted(_)
\* sorted(list(set(...))) for a set of str
Sorted(S) ==
    IF S = {} THEN <<>>
    ELSE <<CHOOSE x \in S : \A y \in S \ {x} : StrLess(x, y)>>
             \o Sorted(S \ {CHOOSE x \in S : \A y \in S \ {x} : StrLess(x, y)})

\* the elements of a list
Elements(seq) == {seq[i] : i \in DOMAIN seq}

\* PASS_THRESHOLD of config.py
PASS_THRESHOLD == 40

MetadataColumns ==
    {<<"s", "t", "u", "d", "e", "n", "t", " ", "n", "a", "m", "e">>,
      <<"s", "e", "a", "t", " ", "n", "o", ".">>, <<"s", "e", "a", "t", " ", "n", "o">>,
      <<"e", "n", "r", "o", "l", "l", "m", "e", "n", "t", " ", "n", "o", ".">>,
      <<"e", "n", "r", "o", "l", "l", "m", "e", "n", "t", " ", "n", "o">>,
     <<"s", "p", " ", "i", "d">>, <<"s", "p", "i", "d">>,
       <<"c", "o", "l", "l", "e", "g", "e", " ", "n", "a", "m", "e">>,
       <<"e", "x", "a", "m", " ", "n", "a", "m", "e">>,
       <<"s", "t", "u", "d", "e", "n", "t", " ", "i", "d">>,
       <<"r", "o", "l", "l", " ", "n", "o", ".">>,
     <<"o", "v", "e", "r", "a", "l", "l", " ", "s", "t", "a", "t", "u", "s">>,
       <<"p", "a", "s", "s", "e", "d", " ", "s", "u", "b", "j", "e", "c", "t", "s">>,
       <<"f", "a", "i", "l", "e", "d", " ", "s", "u", "b", "j", "e", "c", "t", "s">>,
     <<"s", "e", "a", "t", "n", "o">>, <<"g", "e", "n", "d", "e", "r">>,
       <<"n", "a", "m", "e">>, <<"c", "a", "s", "t">>, <<"i", "d">>,
       <<"r", "e", "s", "u", "l", "t">>, <<"o", "u", "t", " ", "o", "f", " ", "1", "0">>,
     <<"t", "o", "t", "a", "l", "_", "i", "n", "t">>,
       <<"t", "o", "t", "a", "l", "_", "e", "x", "t">>,
       <<"c", "o", "m", "b", "i", "n", "e", "d", "_", "t", "o", "t", "a", "l">>,
       <<"p", "a", "s", "s", "_", "f", "a", "i", "l">>}

ExcludePatterns == {<<"g", "r", "a", "d", "e">>, <<",", ",">>,
  <<" ", "t", "o", "t", "a", "l">>, <<"s", "e", "m", "-">>, <<"f", "l", "o", "a", "t", "_">>}

\* potential_cols of _get_subject_columns
PotentialCols(df) ==
    SelectSeq(df.columns,
              LAMBDA col : col \notin MetadataColumns
                           /\ \A pattern \in ExcludePatterns : ~Contains(col, pattern))

\* re.match(r'^(sub\d+)', col)
MatchesSub(col) == StartsWith(col, <<"s", "u", "b">>) /\ DigitRun(col, 4) > 0

\* match.group(1) of it
SubBase(col) == SubSeq(col, 1, 3 + DigitRun(col, 4))

\* sub_groups[base] for the base of a SUBn column
SubGroup(cols, base) == SelectSeq(cols, LAMBDA c : MatchesSub(c) /\ SubBase(c) = base)

\* next((c for c in cols if 'total' in c.lower()), cols[0])
TotalCol(cols) ==
    IF \E i \in DOMAIN cols : Contains(cols[i], <<"t", "o", "t", "a", "l">>)
    THEN cols[Least({i \in DOMAIN cols : Contains(cols[i], <<"t", "o", "t", "a", "l">>)})]
    ELSE cols[1]

\* StudentMarksProcessor._get_subject_columns
GetSubjectColumns(df) ==
    Sorted({IF MatchesSub(col)
            THEN TotalCol(SubGroup(PotentialCols(df), SubBase(col))) ELSE col :
               col \in Elements(PotentialCols(df))})

\* StudentMarksProcessor(dataframe): the column names in lower case, the
\* threshold and the subject columns, when no subject list is given
NewProcessor(dataframe) ==
    [df |-> [columns |-> [j \in DOMAIN dataframe.columns |-> Lower(dataframe.columns[j])],
             rows |-> dataframe.rows],
     pass_threshold |-> PASS_THRESHOLD,
     subject_columns |->
         GetSubjectColumns([columns |-> [j \in DOMAIN dataframe.columns |->
                                            Lower(dataframe.columns[j])],
                            rows |-> dataframe.rows])]

SemSeparators == {"-", "_", " "}

\* re.search(r'sem[-_ ]?(\d+)', col) tried at position i: the digits of
\* group 1, or the empty str without a match there
SemDigitsAt(col, i) ==
    IF i + 2 > Len(col) \/ SubSeq(col, i, i + 2) # <<"s", "e", "m">> THEN <<>>
    ELSE IF i + 3 <= Len(col) /\ col[i + 3] \in SemSeparators /\ DigitRun(col, i + 4) > 0
         THEN SubSeq(col, i + 4, i + 3 + DigitRun(col, i + 4))
         ELSE SubSeq(col, i + 3, i + 2 + DigitRun(col, i + 3))

\* group 1 of the leftmost match, or the empty str
SemDigits(col) ==
    IF \E i \in 1..Len(col) : SemDigitsAt(col, i) # <<>>
    THEN SemDigitsAt(col, Least({i \in 1..Len(col) : SemDigitsAt(col, i) # <<>>}))
    ELSE <<>>

\* the prefix get_sem_columns keeps for a column with a match
SemPrefix(col) ==
    IF Contains(col, <<"s", "e", "m", "-">> \o SemDigits(col)) THEN <<"s", "e", "m", "-">> \o SemDigits(col)
    ELSE IF Contains(col, <<"s", "e", "m">> \o SemDigits(col)) THEN <<"s", "e", "m">> \o SemDigits(col)
    ELSE <<"s", "e", "m", "-">> \o SemDigits(col)

\* int(re.search(r'(\d+)', x).group(1)), for an x that holds a digit
FirstNumber(x) ==
    DecimalValue(SubSeq(x, Least({i \in 1..Len(x) : x[i] \in Digits}),
                        Least({i \in 1..Len(x) : x[i] \in Digits})
                            + DigitRun(x, Least({i \in 1..Len(x) : x[i] \in Digits})) - 1))

\* x comes before y in the numeric order of the semesters; two prefixes of
\* the same number do not occur in the tables here
SemBefore(x, y) ==
    FirstNumber(x) < FirstNumber(y) \/ (FirstNumber(x) = FirstNumber(y) /\ StrLess(x, y))

RECURSIVE SortedSems(_)
SortedSems(S) ==
    IF S = {} THEN <<>>
    ELSE <<CHOOSE x \in S : \A y \in S \ {x} : SemBefore(x, y)>>
             \o SortedSems(S \ {CHOOSE x \in S : \A y \in S \ {x} : SemBefore(x, y)})

\* StudentMarksProcessor.get_sem_columns
GetSemColumns(p) ==
    SortedSems({SemPrefix(col) : col \in {c \in Elements(p.df.columns) : SemDigits(c) # <<>>}})

\* row.get(col)
RowGet(p, row, col) == row[ColumnIndex(p.df.columns, col)]

\* pd.notna(value) and str(value).strip() != ''
HasData(value) == value.t # "nan" /\ Strip(AsStr(value)) # <<>>

\* val_str == 'FAIL' or val_str.startswith('F-')
IsFailValue(value) ==
    \/ StrUpper(Strip(AsStr(value))) = <<"F", "A", "I", "L">>
    \/ StartsWith(StrUpper(Strip(AsStr(value))), <<"F", "-">>)

\* [col for col in self.df.columns if col.startswith(prefix)]
ColsWithPrefix(columns, prefix) == SelectSeq(columns, LAMBDA col : StartsWith(col, prefix))

\* Python's truth value of the upto_semester argument
Truthy(upto_semester) == upto_semester # None /\ upto_semester # <<>>

\* int(s.split('-')[1]): IndexError without a dash, ValueError for a part
\* that is no number
SplitNumber(s) ==
    IF Len(SplitOn(s, "-")) < 2 THEN [exc |-> "IndexError", val |-> 0]
    ELSE IntOf(SplitOn(s, "-")[2])

\* sem_to_check of is_passed_all_semesters: an exception in the try block
\* leaves every semester to check
SemToCheck(sem_prefixes, upto_semester) ==
    IF ~Truthy(upto_semester) THEN sem_prefixes
    ELSE IF SplitNumber(upto_semester).exc # "none" THEN sem_prefixes
    ELSE IF \E i \in DOMAIN sem_prefixes : SplitNumber(sem_prefixes[i]).exc # "none"
         THEN sem_prefixes
         ELSE SelectSeq(sem_prefixes,
                        LAMBDA s : SplitNumber(s).val <= SplitNumber(upto_semester).val)

\* later_sems_have_data
LaterSemsHaveData(p, row, sem_prefixes, prefix) ==
    \E k \in DOMAIN sem_prefixes :
        /\ FirstNumber(sem_prefixes[k]) > FirstNumber(prefix)
        /\ \E oc \in Elements(ColsWithPrefix(p.df.columns, sem_prefixes[k])) :
              HasData(RowGet(p, row, oc))

\* the body of "for prefix in sem_to_check": TRUE when it returns False
SemesterFails(p, row, sem_prefixes, prefix) ==
    \/ \E col \in Elements(ColsWithPrefix(p.df.columns, prefix)) :
          HasData(RowGet(p, row, col)) /\ IsFailValue(RowGet(p, row, col))
    \/ /\ \A col \in Elements(ColsWithPrefix(p.df.columns, prefix)) : ~HasData(RowGet(p, row, col))
       /\ LaterSemsHaveData(p, row, sem_prefixes, prefix)

\* StudentMarksProcessor.is_passed_all_semesters: the loop returns False at
\* the first semester that fails
IsPassedAllSemesters(p, row, upto_semester) ==
    \A prefix \in Elements(SemToCheck(GetSemColumns(p), upto_semester)) :
        ~SemesterFails(p, row, GetSemColumns(p), prefix)

\* str.contains('Fail|F-|NA|NaN', case=False) on astype(str) of a grade
GradeSaysFail(value) ==
    \E word \in {<<"f", "a", "i", "l">>, <<"f", "-">>, <<"n", "a">>,
      <<"n", "a", "n">>} : Contains(Lower(AsStr(value)), word)

\* pd.to_numeric(..., errors='coerce') on one cell of the tables here: the
\* number, or NaN for a missing cell and for a text that is no number
PdToNumeric(value) ==
    IF value.t = "int" THEN [nan |-> FALSE, val |-> value.n]
    ELSE IF value.t = "str" /\ IntOfStripped(value.s).exc = "none"
         THEN [nan |-> FALSE, val |-> IntOfStripped(value.s).val]
         ELSE [nan |-> TRUE, val |-> 0]

\* the grade column _get_subject_status uses for a subject column, or the
\* empty str
GradeCol(p, subject_col) ==
    IF MatchesSub(subject_col) /\ HasColumn(p.df, SubBase(subject_col) \o <<"_", "g", "r", "a", "d", "e">>)
    THEN SubBase(subject_col) \o <<"_", "g", "r", "a", "d", "e">>
    ELSE <<>>

\* StudentMarksProcessor._get_subject_status for one row
GetSubjectStatus(p, subject_col, row) ==
    IF GradeCol(p, subject_col) # <<>>
    THEN ~(GradeSaysFail(RowGet(p, row, GradeCol(p, subject_col)))
           \/ RowGet(p, row, GradeCol(p, subject_col)).t = "nan")
    ELSE /\ ~PdToNumeric(RowGet(p, row, subject_col)).nan
         /\ PdToNumeric(RowGet(p, row, subject_col)).val >= p.pass_threshold

\* the first of ['result', 'overall status', 'status'] among the columns, or
\* the empty str
ResultCol(p) ==
    IF HasColumn(p.df, <<"r", "e", "s", "u", "l", "t">>) THEN <<"r", "e", "s", "u", "l", "t">>
    ELSE IF HasColumn(p.df, <<"o", "v", "e", "r", "a", "l", "l", " ", "s", "t", "a", "t", "u", "s">>) THEN <<"o", "v", "e", "r", "a", "l", "l", " ", "s", "t", "a", "t", "u", "s">>
    ELSE IF HasColumn(p.df, <<"s", "t", "a", "t", "u", "s">>) THEN <<"s", "t", "a", "t", "u", "s">>
    ELSE <<>>

\* result_df['overall status'] of calculate_overall_status for one row
OverallStatus(p, row) ==
    IF ResultCol(p) # <<>>
    THEN IF \/ RowGet(p, row, ResultCol(p)).t = "nan"
            \/ Strip(AsStr(RowGet(p, row, ResultCol(p)))) = <<>>
            \/ StrUpper(Strip(AsStr(RowGet(p, row, ResultCol(p))))) \in {<<"F", "A", "I", "L">>, <<"N", "A", "N">>}
         THEN "Fail" ELSE "Pass"
    ELSE IF \A i \in DOMAIN p.subject_columns : GetSubjectStatus(p, p.subject_columns[i], row)
         THEN "Pass" ELSE "Fail"

\* the columns of the table calculate_overall_status returns
StatusColumns(p) ==
    p.df.columns
        \o (IF HasColumn(p.df, <<"o", "v", "e", "r", "a", "l", "l", " ", "s", "t", "a", "t", "u", "s">>) THEN <<>> ELSE <<<<"o", "v", "e", "r", "a", "l", "l", " ", "s", "t", "a", "t", "u", "s">>>>)
        \o (IF HasColumn(p.df, <<"p", "a", "s", "s", "e", "d", " ", "s", "u", "b", "j", "e", "c", "t", "s">>) THEN <<>> ELSE <<<<"p", "a", "s", "s", "e", "d", " ", "s", "u", "b", "j", "e", "c", "t", "s">>>>)
        \o (IF HasColumn(p.df, <<"f", "a", "i", "l", "e", "d", " ", "s", "u", "b", "j", "e", "c", "t", "s">>) THEN <<>> ELSE <<<<"f", "a", "i", "l", "e", "d", " ", "s", "u", "b", "j", "e", "c", "t", "s">>>>)

\* one cell of that table
StatusCell(p, row, col) ==
    IF col = <<"o", "v", "e", "r", "a", "l", "l", " ", "s", "t", "a", "t", "u", "s">>
    THEN StrCell(IF OverallStatus(p, row) = "Pass" THEN <<"P", "a", "s", "s">> ELSE <<"F", "a", "i", "l">>)
    ELSE IF col = <<"p", "a", "s", "s", "e", "d", " ", "s", "u", "b", "j", "e", "c", "t", "s">>
    THEN IntCell(Cardinality({i \in DOMAIN p.subject_columns :
                                 GetSubjectStatus(p, p.subject_columns[i], row)}))
    ELSE IF col = <<"f", "a", "i", "l", "e", "d", " ", "s", "u", "b", "j", "e", "c", "t", "s">>
    THEN IntCell(Cardinality({i \in DOMAIN p.subject_columns :
                                 ~GetSubjectStatus(p, p.subject_columns[i], row)}))
    ELSE RowGet(p, row, col)

\* next((c for c in names if c in columns), default)
FirstPresent(columns, names, default) ==
    IF \E i \in DOMAIN names : names[i] \in Elements(columns)
    THEN names[Least({i \in DOMAIN names : names[i] \in Elements(columns)})]
    ELSE default

\* int(re.search(r'(\d+)', upto_semester).group(1)) in the try block of the
\* two filters: without a digit the semesters stay as they are
SemUpTo(sem_prefixes, upto_semester) ==
    IF ~Truthy(upto_semester) THEN sem_prefixes
    ELSE IF \A i \in DOMAIN upto_semester : upto_semester[i] \notin Digits THEN sem_prefixes
    ELSE SelectSeq(sem_prefixes, LAMBDA s : FirstNumber(s) <= FirstNumber(upto_semester))

\* df[mask][cols]: the rows of the index in their order, the cells of the columns
Select(p, idx, cols, cell(_, _)) ==
    [exc |-> "none", columns |-> cols, index |-> idx,
     rows |-> [k \in DOMAIN idx |->
                 [j \in DOMAIN cols |-> cell(p.df.rows[idx[k]], cols[j])]]]

\* a call that raised
Raised(exc) == [exc |-> exc, columns |-> <<>>, index |-> <<>>, rows |-> <<>>]

\* the row numbers that satisfy a mask, in order
Masked(p, mask(_)) == SelectSeq([i \in DOMAIN p.df.rows |-> i], LAMBDA i : mask(p.df.rows[i]))

\* passed_mask = current_pass & sem_pass
PassedMask(p, row, upto_semester) ==
    OverallStatus(p, row) = "Pass" /\ IsPassedAllSemesters(p, row, upto_semester)

\* the union of the columns of the given semesters
SemCols(columns, sem_prefixes) ==
    UNION {Elements(ColsWithPrefix(columns, sem_prefixes[k])) : k \in DOMAIN sem_prefixes}

\* StudentMarksProcessor.filter_passed_students
FilterPassedStudents(p, upto_semester) ==
    Select(p, Masked(p, LAMBDA row : PassedMask(p, row, upto_semester)),
           SelectSeq(<<FirstPresent(StatusColumns(p), <<<<"s", "p", "i", "d">>,
             <<"s", "p", " ", "i", "d">>>>, <<"s", "p", "i", "d">>),
                       FirstPresent(StatusColumns(p), <<<<"n", "a", "m", "e">>,
                         <<"s", "t", "u", "d", "e", "n", "t", " ", "n", "a", "m", "e">>>>,
                         <<"s", "t", "u", "d", "e", "n", "t", " ", "n", "a", "m", "e">>),
                       FirstPresent(StatusColumns(p), <<<<"i", "d">>,
                         <<"s", "t", "u", "d", "e", "n", "t", " ", "i", "d">>>>, <<"i", "d">>),
                       FirstPresent(StatusColumns(p), <<<<"s", "e", "a", "t", "n", "o">>,
                         <<"s", "e", "a", "t", " ", "n", "o">>>>,
                         <<"s", "e", "a", "t", "n", "o">>),
                       <<"o", "v", "e", "r", "a", "l", "l", " ", "s", "t", "a", "t", "u", "s">>>>
                         \o Sorted(SemCols(StatusColumns(p),
                                           SemUpTo(GetSemColumns(p), upto_semester))),
                     LAMBDA c : c \in Elements(StatusColumns(p))),
           LAMBDA row, col :
               IF col = <<"o", "v", "e", "r", "a", "l", "l", " ", "s", "t", "a", "t", "u", "s">> THEN StrCell(<<"P", "a", "s", "s">>) ELSE StatusCell(p, row, col))

\* _get_sem_status(row, prefix) == 'Fail'
SemStatusFails(p, row, prefix) ==
    \/ ColsWithPrefix(StatusColumns(p), prefix) = <<>>
    \/ \E col \in Elements(ColsWithPrefix(StatusColumns(p), prefix)) :
          HasData(RowGet(p, row, col)) /\ IsFailValue(RowGet(p, row, col))
    \/ \A col \in Elements(ColsWithPrefix(StatusColumns(p), prefix)) : ~HasData(RowGet(p, row, col))

\* failed_sem_cols of filter_failed_students
FailedSemCols(p, idx, sem_prefixes) ==
    UNION {Elements(ColsWithPrefix(StatusColumns(p), sem_prefixes[k])) :
              k \in {k \in DOMAIN sem_prefixes :
                        \E i \in Elements(idx) : SemStatusFails(p, p.df.rows[i], sem_prefixes[k])}}

\* base_cols + sorted(list(set(failed_sem_cols))), for the rows of the index
FailedCols(p, idx, upto_semester) ==
    <<FirstPresent(StatusColumns(p),
                   <<<<"i", "d">>, <<"s", "t", "u", "d", "e", "n", "t", " ", "i", "d">>,
                     <<"e", "n", "r", "o", "l", "l", "m", "e", "n", "t", " ", "n", "o">>,
                     <<"e", "n", "r", "o", "l", "l", "m", "e", "n", "t", " ", "n", "o", ".">>>>, <<"i", "d">>),
      FirstPresent(StatusColumns(p), <<<<"n", "a", "m", "e">>,
        <<"s", "t", "u", "d", "e", "n", "t", " ", "n", "a", "m", "e">>>>,
        <<"s", "t", "u", "d", "e", "n", "t", " ", "n", "a", "m", "e">>),
      FirstPresent(StatusColumns(p), <<<<"s", "p", "i", "d">>, <<"s", "p", " ", "i", "d">>>>,
        <<"s", "p", "i", "d">>)>>
        \o (IF \E i \in Elements(idx) : OverallStatus(p, p.df.rows[i]) = "Fail"
            THEN <<<<"o", "v", "e", "r", "a", "l", "l", " ", "s", "t", "a", "t", "u", "s">>>> ELSE <<>>)
        \o Sorted(FailedSemCols(p, idx, SemUpTo(GetSemColumns(p), upto_semester)))

\* StudentMarksProcessor.filter_failed_students
FilterFailedStudents(p, upto_semester) ==
    Select(p, Masked(p, LAMBDA row : ~PassedMask(p, row, upto_semester)),
           SelectSeq(FailedCols(p, Masked(p, LAMBDA row : ~PassedMask(p, row, upto_semester)),
                                upto_semester),
                     LAMBDA c : c \in Elements(StatusColumns(p))),
           LAMBDA row, col : StatusCell(p, row, col))

\* matching_subjects of filter_subject_wise_pass
MatchingPass(p, subject) ==
    SelectSeq(p.subject_columns, LAMBDA s : Contains(s, subject) \/ Contains(subject, s))

\* matching_subjects of filter_subject_wise_fail
MatchingFail(p, subject) == SelectSeq(p.subject_columns, LAMBDA s : Contains(s, subject))

\* base of the related columns
RelatedBase(subject) ==
    IF MatchesSub(subject) THEN SubBase(subject)
    ELSE IF Contains(subject, <<"_">>) THEN SplitOn(subject, "_")[1]
    ELSE subject

\* related_cols
RelatedCols(p, subject) ==
    IF SelectSeq(p.df.columns,
                 LAMBDA c : StartsWith(c, RelatedBase(subject)) /\ ~Contains(c, <<"g", "r", "a", "d", "e">>)) = <<>>
    THEN {subject}
    ELSE Elements(SelectSeq(p.df.columns,
                            LAMBDA c : StartsWith(c, RelatedBase(subject))
                                       /\ ~Contains(c, <<"g", "r", "a", "d", "e">>)))

\* the return of the pass filter once the subject column is known
SubjectWisePassOf(p, subject) ==
    Select(p, Masked(p, LAMBDA row : GetSubjectStatus(p, subject, row)),
           SelectSeq(<<FirstPresent(p.df.columns, <<<<"n", "a", "m", "e">>,
             <<"s", "t", "u", "d", "e", "n", "t", " ", "n", "a", "m", "e">>>>,
             <<"s", "t", "u", "d", "e", "n", "t", " ", "n", "a", "m", "e">>),
                       FirstPresent(p.df.columns, <<<<"s", "p", "i", "d">>,
                         <<"s", "p", " ", "i", "d">>>>, <<"s", "p", "i", "d">>),
                       <<"g", "e", "n", "d", "e", "r">>>>
                         \o Sorted(RelatedCols(p, subject))
                         \o <<<<"s", "t", "a", "t", "u", "s", " ", "i", "n", " ">> \o subject>>,
                     LAMBDA c : c \in Elements(p.df.columns) \cup {<<"s", "t", "a", "t", "u", "s", " ", "i", "n", " ">> \o subject}),
           LAMBDA row, col :
               IF col = <<"s", "t", "a", "t", "u", "s", " ", "i", "n", " ">> \o subject
               THEN StrCell(IF GetSubjectStatus(p, subject, row) THEN <<"P", "a", "s", "s">> ELSE <<"F", "a", "i", "l">>)
               ELSE RowGet(p, row, col))

\* StudentMarksProcessor.filter_subject_wise_pass, subject in lower case
FilterSubjectWisePass(p, subject) ==
    IF HasColumn(p.df, subject) THEN SubjectWisePassOf(p, subject)
    ELSE IF MatchingPass(p, subject) = <<>> THEN Raised("ValueError")
    ELSE SubjectWisePassOf(p, MatchingPass(p, subject)[1])

\* the last statements of filter_subject_wise_fail: result_cols is computed
\* from desired_order, a name this function never binds
SubjectWiseFailOf(p, subject) == Raised("NameError")

\* StudentMarksProcessor.filter_subject_wise_fail, subject in lower case
FilterSubjectWiseFail(p, subject) ==
    IF HasColumn(p.df, subject) THEN SubjectWiseFailOf(p, subject)
    ELSE IF MatchingFail(p, subject) = <<>> THEN Raised("ValueError")
    ELSE SubjectWiseFailOf(p, MatchingFail(p, subject)[1])

(***************************************************************************)
(* SpecFilter: one processor over a table, and each of its filters called  *)
(* at most once on it, in any order                                        *)
(***************************************************************************)
MaxFilterRows == 2

\* tables of 1..maxRows rows drawn from a set of rows
TablesOf(columns, rowSet, maxRows) ==
    UNION {{[columns |-> columns, rows |-> r] : r \in [1..n -> rowSet]} : n \in 1..maxRows}

ResultCells == {NaN, StrCell(<<"P", "A", "S", "S">>), StrCell(<<"f", "a", "i", "l">>)}

FirstSemCells == {NaN, StrCell(<<"7", ".", "5">>), StrCell(<<"F", "A", "I", "L">>)}

SecondSemCells == {NaN, StrCell(<<" ">>), StrCell(<<"8", ".", "0">>), StrCell(<<"f", "-", "2">>)}

MarksCells == {IntCell(39), IntCell(40), NaN, StrCell(<<"A", "B">>)}

GradeCells == {StrCell(<<"A">>), StrCell(<<"F", "a", "i", "l">>), NaN}

\* tables with a result column and two semester columns
SemesterTables(maxRows) ==
    TablesOf(<<<<"N", "A", "M", "E">>, <<"R", "E", "S", "U", "L", "T">>,
      <<"S", "E", "M", "-", "1">>, <<"S", "E", "M", "-", "2">>>>,
             {<<StrCell(<<"a">>), r, s1, s2>> :
                 r \in ResultCells, s1 \in FirstSemCells, s2 \in SecondSemCells},
             maxRows)

\* tables without a result column: the status comes from the marks
MarksTables(maxRows) ==
    TablesOf(<<<<"N", "A", "M", "E">>, <<"M", "a", "t", "h", "s">>, <<"S", "E", "M", "-", "1">>>>,
             {<<StrCell(<<"a">>), m, s1>> : m \in MarksCells, s1 \in FirstSemCells}, maxRows)

\* tables with a marks column and a SUBn group that has a grade column
SubjectTables(maxRows) ==
    TablesOf(<<<<"N", "A", "M", "E">>, <<"M", "a", "t", "h", "s">>,
      <<"S", "U", "B", "1", "_", "T", "O", "T", "A", "L">>,
      <<"S", "U", "B", "1", "_", "G", "R", "A", "D", "E">>>>,
             {<<StrCell(<<"a">>), m, IntCell(18), g>> : m \in MarksCells, g \in GradeCells},
             maxRows)

UptoSemesters == {None, <<"s", "e", "m", "-", "1">>, <<"f", "i", "r", "s", "t">>}

Subjects == {<<"M", "a", "t", "h", "s">>, <<"m", "a", "t", "h">>,
  <<"m", "a", "t", "h", "s", "x">>, <<"s", "u", "b", "1">>,
  <<"S", "U", "B", "1", "_", "G", "R", "A", "D", "E">>, <<"p", "h", "y", "s", "i", "c", "s">>}

FilterInputs(maxRows) ==
    {[kind |-> "semesters", df |-> t, upto_semester |-> u, subject |-> <<>>] :
        t \in SemesterTables(maxRows) \cup MarksTables(maxRows), u \in UptoSemesters}
    \cup {[kind |-> "subject", df |-> t, upto_semester |-> None, subject |-> s] :
             t \in SubjectTables(maxRows), s \in Subjects}

\* no method was called yet
NoResults == [k \in {} |-> 0]

InitFilter ==
    /\ ProcessIdle
    /\ fn = "StudentMarksProcessor"
    /\ arg \in FilterInputs(MaxFilterRows)
    /\ ret = NoResults

\* processor.is_passed_all_semesters(row, upto_semester) for a row of the table
CallIsPassedAllSemesters ==
    /\ fn = "StudentMarksProcessor"
    /\ arg.kind = "semesters"
    /\ "is_passed_all_semesters" \notin DOMAIN ret
    /\ \E i \in DOMAIN arg.df.rows :
          ret' = Put(ret, "is_passed_all_semesters",
                     [row |-> i,
                      value |-> IsPassedAllSemesters(NewProcessor(arg.df), arg.df.rows[i],
                                                     arg.upto_semester)])
    /\ UNCHANGED <<fn, arg, ProcessVars>>

\* processor.filter_passed_students(upto_semester)
CallFilterPassedStudents ==
    /\ fn = "StudentMarksProcessor"
    /\ arg.kind = "semesters"
    /\ "filter_passed_students" \notin DOMAIN ret
    /\ ret' = Put(ret, "filter_passed_students",
                  FilterPassedStudents(NewProcessor(arg.df), arg.upto_semester))
    /\ UNCHANGED <<fn, arg, ProcessVars>>

\* processor.filter_failed_students(upto_semester)
CallFilterFailedStudents ==
    /\ fn = "StudentMarksProcessor"
    /\ arg.kind = "semesters"
    /\ "filter_failed_students" \notin DOMAIN ret
    /\ ret' = Put(ret, "filter_failed_students",
                  FilterFailedStudents(NewProcessor(arg.df), arg.upto_semester))
    /\ UNCHANGED <<fn, arg, ProcessVars>>

\* processor.filter_subject_wise_pass(subject)
CallFilterSubjectWisePass ==
    /\ fn = "StudentMarksProcessor"
    /\ arg.kind = "subject"
    /\ "filter_subject_wise_pass" \notin DOMAIN ret
    /\ ret' = Put(ret, "filter_subject_wise_pass",
                  FilterSubjectWisePass(NewProcessor(arg.df), Lower(arg.subject)))
    /\ UNCHANGED <<fn, arg, ProcessVars>>

\* processor.filter_subject_wise_fail(subject)
CallFilterSubjectWiseFail ==
    /\ fn = "StudentMarksProcessor"
    /\ arg.kind = "subject"
    /\ "filter_subject_wise_fail" \notin DOMAIN ret
    /\ ret' = Put(ret, "filter_subject_wise_fail",
                  FilterSubjectWiseFail(NewProcessor(arg.df), Lower(arg.subject)))
    /\ UNCHANGED <<fn, arg, ProcessVars>>

NextFilter ==
    \/ CallIsPassedAllSemesters
    \/ CallFilterPassedStudents
    \/ CallFilterFailedStudents
    \/ CallFilterSubjectWisePass
    \/ CallFilterSubjectWiseFail

SpecFilter == InitFilter /\ [][NextFilter]_vars

(***************************************************************************)
(* Claims about the filters, checked under SpecFilter                      *)
(***************************************************************************)
\* the semesters that are checked for the call at hand
Checked == Elements(SemToCheck(GetSemColumns(NewProcessor(arg.df)), arg.upto_semester))

\* the student of row i has no value in a checked semester
EmptyInChecked(i) ==
    \E prefix \in Checked :
        \A col \in Elements(ColsWithPrefix(NewProcessor(arg.df).df.columns, prefix)) :
            ~HasData(RowGet(NewProcessor(arg.df), arg.df.rows[i], col))

\* the student of row i has a failing value in a checked semester
FailingInChecked(i) ==
    \E prefix \in Checked :
        \E col \in Elements(ColsWithPrefix(NewProcessor(arg.df).df.columns, prefix)) :
            /\ HasData(RowGet(NewProcessor(arg.df), arg.df.rows[i], col))
            /\ IsFailValue(RowGet(NewProcessor(arg.df), arg.df.rows[i], col))

\* C26: is_passed_all_semesters returns True for a student only if every
\* checked semester holds a non-empty, non-failing value; a student with an
\* empty value in a checked semester is not in the result of
\* filter_passed_students and is in the result of filter_failed_students.
C26_PassedAllSemesters ==
    arg.kind = "semesters" =>
        /\ "is_passed_all_semesters" \in DOMAIN ret =>
              (ret["is_passed_all_semesters"].value =>
                  /\ ~EmptyInChecked(ret["is_passed_all_semesters"].row)
                  /\ ~FailingInChecked(ret["is_passed_all_semesters"].row))
        /\ "filter_passed_students" \in DOMAIN ret =>
              \A i \in Elements(ret["filter_passed_students"].index) : ~EmptyInChecked(i)
        /\ "filter_failed_students" \in DOMAIN ret =>
              \A i \in DOMAIN arg.df.rows :
                  EmptyInChecked(i) => i \in Elements(ret["filter_failed_students"].index)

\* the column a subject column of the table names, in lower case
AskedColumn == Lower(arg.subject)

\* the rows of the table whose status in the asked column is pass
PassRows ==
    {i \in DOMAIN arg.df.rows :
        GetSubjectStatus(NewProcessor(arg.df), AskedColumn, arg.df.rows[i])}

\* the subject matches a column: it names one, or it is part of a subject
\* column, or a subject column is part of it
MatchesColumn ==
    \/ HasColumn(NewProcessor(arg.df).df, AskedColumn)
    \/ MatchingPass(NewProcessor(arg.df), AskedColumn) # <<>>

\* C30: for a subject column of the table, filter_subject_wise_pass and
\* filter_subject_wise_fail each return a table without raising, pass selects
\* the rows whose subject status is pass and fail selects all other rows, so
\* that every row is selected by exactly one of the two; either raises
\* ValueError only when the subject matches no column.
C30_SubjectWisePartition ==
    arg.kind = "subject" =>
        /\ \A m \in DOMAIN ret : ret[m].exc = "ValueError" => ~MatchesColumn
        /\ AskedColumn \in Elements(NewProcessor(arg.df).subject_columns) =>
              /\ "filter_subject_wise_pass" \in DOMAIN ret =>
                    /\ ret["filter_subject_wise_pass"].exc = "none"
                    /\ Elements(ret["filter_subject_wise_pass"].index) = PassRows
              /\ "filter_subject_wise_fail" \in DOMAIN ret =>
                    /\ ret["filter_subject_wise_fail"].exc = "none"
                    /\ Elements(ret["filter_subject_wise_fail"].index)
                          = DOMAIN arg.df.rows \ PassRows

====
